---------------------------- MODULE Spec2Model ----------------------------
(***************************************************************************)
(* A model of the data-compliance-audit engine: the PII classifier of      *)
(* src/src/tagging_engine.py and the policy evaluator of                   *)
(* src/src/policy_engine.py.                                               *)
(*                                                                         *)
(* Python str values are TLA+ strings; a character is a string of length   *)
(* one.  An optional value (a dict key that may be absent, None, a NaN     *)
(* cell) is a sequence of length at most one: <<>> is the absent value and *)
(* <<v>> holds v.                                                          *)
(***************************************************************************)
EXTENDS Integers, Sequences, FiniteSets, TLC

VARIABLES
    \* evaluate_policies
    policies,     \* the "policies" argument: a dict whose key "policies" may be absent
    registry,     \* the "registry" argument: the rows of the DataFrame, in order
    pidx,         \* position of the outer loop (policy index, from 1)
    ridx,         \* position of the inner loop (row index, from 1)
    violations,   \* the list the function builds and returns
    origin,       \* history: for each violation, the <<policy index, row index>> that emitted it
    epc,          \* "idle" | "loop" | "done"
    prev,         \* the list the first call returned, None until the caller calls again
    \* one-policy evaluations over the whole row pool
    sweepTodo,    \* the rules of SweepPolicies not evaluated yet
    pairCounts,   \* the numbers of violations single (policy, row) pairs have emitted
    \* detect_by_name
    colName,      \* the column_name argument
    nameTag,      \* what detect_by_name(colName) returned
    loweredTag,   \* what a following call on the lower-cased name returned
    npc,          \* "start" | "named" | "both"
    \* scan_dataframe
    df,           \* the "df" argument: its columns in order, each [name, dtype, values]
    tableName,    \* the "table_name" argument
    cidx,         \* position of the loop over df.columns (from 1)
    results,      \* the list of ColumnPIIResult the function builds and returns
    locals,       \* history: for each column processed, what each detection step found
    spc,          \* "idle" | "loop" | "done"
    \* scan_pii.main
    dataDir,      \* the files of the data directory, each [name, frame]
    csvs,         \* what find_csvs returned
    tidx,         \* position of the loop over the CSV files (from 1)
    allResults,   \* the list all_results
    report,       \* the rows written to the report, None before
    prevReport,   \* the rows the first run wrote, None until main runs again
    mpc,          \* "idle" | "loop" | "done"
    \* PIIMasker.mask_phone, mask_email
    maskFn,       \* the method called: "" before the call, then "mask_phone" | "mask_email"
    maskArg,      \* its first argument: None or Some(str)
    maskChar,     \* its mask_char argument: None or Some(str)
    maskOut,      \* how the call ended: None before it, then Some([kind, value])
    \* mask_dataframe
    callerDf,     \* the caller's DataFrame: its columns in order, each [name, values]
    dfBefore,     \* history: the caller's DataFrame when the call began
    copyDf,       \* the frame df.copy() made, None when there is none
    columnTypes,  \* the column_types argument: its items in order, each [column, field_type]
    inplace,      \* the inplace argument
    ctidx,        \* position of the loop over column_types.items() (from 1)
    frameOut,     \* how the call ended: None before it, then Some([kind, frame])
    fpc,          \* "idle" | "loop" | "done"
    \* ViolationTracker, AlertManager
    clock,             \* datetime.now(), in hours since the tracker was set up
    trackerViolations, \* ViolationTracker.violations
    violationsDb,      \* the list saved in the violation database file
    addCalls,          \* history: the number of add_violation calls
    lastCall,          \* history: the last tracker call, None or Some([op, index, raised])
    stats,             \* what the last get_violation_stats returned, None once the list changed
    alertHistory,      \* AlertManager.alert_history
    alertFile,         \* the list saved in the alert history file
    seenAtAlert,       \* history: the length of the violation list when the last alert was sent
    lastCheck,         \* history: the last should_alert call of main and what it saw
    \* run_audit: run_pipeline and main
    environment,       \* what the run meets: failing stages, the files of outputs/
    stages,            \* history: the stages that ran, in order, each [stage, outcome]
    pipelineLog,       \* the messages logged, in order
    pipelineResult,    \* what run_pipeline returned, None before
    exitStatus,        \* the status main exited with, None before
    ppc                \* "start" | "scan" | "policies" | "report" | "returned" | "exited"

evalVars == <<policies, registry, pidx, ridx, violations, origin, epc, prev>>

sweepVars == <<sweepTodo, pairCounts>>

nameVars == <<colName, nameTag, loweredTag, npc>>

scanVars == <<df, tableName, cidx, results, locals, spc>>

mainVars == <<dataDir, csvs, tidx, allResults, report, prevReport, mpc>>

maskVars == <<maskFn, maskArg, maskChar, maskOut>>

frameVars == <<callerDf, dfBefore, copyDf, columnTypes, inplace, ctidx, frameOut, fpc>>

trackVars == <<clock, trackerViolations, violationsDb, addCalls, lastCall, stats,
               alertHistory, alertFile, seenAtAlert, lastCheck>>

\* The state of the masking utilities and of the trackers
pipeVars == <<environment, stages, pipelineLog, pipelineResult, exitStatus, ppc>>

\* The state of the masking utilities and of the trackers
auxVars == <<maskVars, frameVars, trackVars, pipeVars>>

vars == <<evalVars, sweepVars, nameVars, scanVars, mainVars, auxVars>>

-----------------------------------------------------------------------------
(* Optional values and Python truthiness *)

None == <<>>

Some(v) == <<v>>

\* dict.get(key, default) on a dict modelled as a record of optional fields
Get(opt, default) == IF opt = None THEN default ELSE opt[1]

\* bool(x) for a list or a set of values held in a sequence
TruthySeq(s) == Len(s) > 0

\* bool(x) for a str
TruthyStr(s) == s # ""

-----------------------------------------------------------------------------
(* Python str operations *)

\* The printable ASCII characters in code-point order: U+0020..U+005F and
\* U+0061..U+007E (U+0060, the grave accent, cannot be written in a string here)
AsciiLow ==
    " !\"#$%&'()*+,-./0123456789:;<=>?@ABCDEFGHIJKLMNOPQRSTUVWXYZ[\\]^_"

AsciiHigh == "abcdefghijklmnopqrstuvwxyz{|}~"

CharAt(s, i) == SubSeq(s, i, i)

\* The position of character c in table, 0 when it is not there
IndexIn(table, c) ==
    IF \E i \in 1..Len(table) : CharAt(table, i) = c
    THEN CHOOSE i \in 1..Len(table) : CharAt(table, i) = c
    ELSE 0

\* The code point of every character of the two tables
CodePoints ==
    [c \in {CharAt(AsciiLow, i) : i \in 1..Len(AsciiLow)}
            \cup {CharAt(AsciiHigh, i) : i \in 1..Len(AsciiHigh)} |->
        IF IndexIn(AsciiLow, c) > 0 THEN 31 + IndexIn(AsciiLow, c)
        ELSE 96 + IndexIn(AsciiHigh, c)]

\* ord(c) of a printable ASCII character
Ord(c) == CodePoints[c]

\* s < t for two str: lexicographic by code point, a proper prefix first
RECURSIVE StrLess(_, _)
StrLess(s, t) ==
    IF t = "" THEN FALSE
    ELSE IF s = "" THEN TRUE
    ELSE IF CharAt(s, 1) = CharAt(t, 1)
         THEN StrLess(SubSeq(s, 2, Len(s)), SubSeq(t, 2, Len(t)))
         ELSE Ord(CharAt(s, 1)) < Ord(CharAt(t, 1))

\* sorted(S) for a set of str
RECURSIVE Sorted(_)
Sorted(S) ==
    IF S = {} THEN <<>>
    ELSE LET m == CHOOSE x \in S : \A y \in S : y = x \/ StrLess(x, y)
         IN  <<m>> \o Sorted(S \ {m})

\* sep.join(parts)
RECURSIVE Join(_, _)
Join(sep, parts) ==
    IF Len(parts) = 0 THEN ""
    ELSE IF Len(parts) = 1 THEN parts[1]
    ELSE parts[1] \o sep \o Join(sep, Tail(parts))

\* s.split(sep) for a one-character sep: every occurrence of sep cuts, so
\* "".split(",") is [""] and "a,".split(",") is ["a", ""]
RECURSIVE SplitFrom(_, _, _, _)
SplitFrom(s, sep, start, i) ==
    IF i > Len(s) THEN <<SubSeq(s, start, Len(s))>>
    ELSE IF CharAt(s, i) = sep
         THEN <<SubSeq(s, start, i - 1)>> \o SplitFrom(s, sep, i + 1, i + 1)
         ELSE SplitFrom(s, sep, start, i + 1)

Split(s, sep) == SplitFrom(s, sep, 1, 1)

\* s.startswith(prefix)
StartsWith(s, prefix) ==
    Len(prefix) <= Len(s) /\ SubSeq(s, 1, Len(prefix)) = prefix

\* set(list)
ToSet(seq) == {seq[i] : i \in 1..Len(seq)}

-----------------------------------------------------------------------------
(* Python re: patterns as syntax trees, matched the way re.search and        *)
(* Pattern.match decide whether a match exists                                *)

Lit(text) == [op |-> "lit", text |-> text]

\* A character class [...], or \d, \s, given by its members
Class(chars) == [op |-> "class", chars |-> chars]

\* r1 r2 ... rn
Cat(parts) == [op |-> "cat", parts |-> parts]

\* r1 | r2 | ... | rn
Alt(parts) == [op |-> "alt", parts |-> parts]

\* r{lo,hi}; hi = -1 stands for no upper limit
Rep(r, lo, hi) == [op |-> "rep", r |-> r, lo |-> lo, hi |-> hi]

\* r?
Opt(r) == Rep(r, 0, 1)

\* \b, ^ and $
WordB == [op |-> "wordb"]

Bol == [op |-> "bol"]

Eol == [op |-> "eol"]

CharsOf(text) == {CharAt(text, i) : i \in 1..Len(text)}

Digits == CharsOf("0123456789")

\* \w on ASCII text
WordChars ==
    CharsOf("abcdefghijklmnopqrstuvwxyz") \cup CharsOf("ABCDEFGHIJKLMNOPQRSTUVWXYZ")
        \cup Digits \cup {"_"}

\* \s on ASCII text
Spaces == {" ", "\t", "\n", "\r", "\f"}

IsWordAt(s, i) == i >= 1 /\ i <= Len(s) /\ CharAt(s, i) \in WordChars

\* Ends(r, s, i): the positions j such that r matches s[i..j-1]
RECURSIVE Ends(_, _, _)
RECURSIVE EndsCat(_, _, _, _)
RECURSIVE EndsRep(_, _, _, _)

\* The positions reached from the set from after parts[k], parts[k+1], ...
EndsCat(parts, k, s, from) ==
    IF k > Len(parts) \/ from = {} THEN from
    ELSE EndsCat(parts, k + 1, s, UNION {Ends(parts[k], s, i) : i \in from})

\* The positions reached from the set from, n copies of rep.r already matched
EndsRep(rep, s, from, n) ==
    IF from = {} THEN {}
    ELSE LET here == IF n >= rep.lo THEN from ELSE {}
             next == UNION {Ends(rep.r, s, i) : i \in from}
         IN  IF rep.hi # -1 /\ n >= rep.hi THEN here
             ELSE IF n >= rep.lo /\ next \subseteq from THEN here
             ELSE here \cup EndsRep(rep, s, next, n + 1)

Ends(r, s, i) ==
    CASE r.op = "lit"   -> IF i + Len(r.text) - 1 <= Len(s)
                              /\ SubSeq(s, i, i + Len(r.text) - 1) = r.text
                           THEN {i + Len(r.text)} ELSE {}
      [] r.op = "class" -> IF i <= Len(s) /\ CharAt(s, i) \in r.chars
                           THEN {i + 1} ELSE {}
      [] r.op = "cat"   -> EndsCat(r.parts, 1, s, {i})
      [] r.op = "alt"   -> UNION {Ends(r.parts[k], s, i) : k \in 1..Len(r.parts)}
      [] r.op = "rep"   -> EndsRep(r, s, {i}, 0)
      [] r.op = "wordb" -> IF IsWordAt(s, i - 1) # IsWordAt(s, i) THEN {i} ELSE {}
      [] r.op = "bol"   -> IF i = 1 THEN {i} ELSE {}
      [] r.op = "eol"   -> IF i = Len(s) + 1 \/ (i = Len(s) /\ CharAt(s, i) = "\n")
                           THEN {i} ELSE {}

\* bool(re.search(pattern, s))
Search(pattern, s) == \E i \in 1..(Len(s) + 1) : Ends(pattern, s, i) # {}

\* bool(pattern.match(s))
Match(pattern, s) == Ends(pattern, s, 1) # {}

\* c.lower() for one character
LowerChar(c) ==
    LET code == Ord(c)
    IN  IF code >= 65 /\ code <= 90
        THEN CharAt(AsciiHigh, code + 32 - 96)
        ELSE c

\* s.lower()
RECURSIVE Lower(_)
Lower(s) == IF s = "" THEN "" ELSE LowerChar(CharAt(s, 1)) \o Lower(SubSeq(s, 2, Len(s)))

-----------------------------------------------------------------------------
(* tagging_engine.py: the tag catalog *)

Sep == Opt(Class({"-", "_"}))

\* A dict keeps insertion order: the catalog is a list of (tag, pattern) pairs
PII_COLUMN_NAME_PATTERNS ==
    <<[tag |-> "email",
       pattern |-> Alt(<<Cat(<<WordB, Lit("email"), WordB>>),
                         Cat(<<Lit("e"), Sep, Lit("mail")>>)>>)],
      [tag |-> "phone",
       pattern |-> Alt(<<Cat(<<WordB, Lit("phone"), WordB>>),
                         Cat(<<Lit("contact"), Sep, Lit("number")>>),
                         Lit("mobile")>>)],
      [tag |-> "ip",
       pattern |-> Alt(<<Cat(<<Lit("ip"), Opt(Cat(<<Sep, Lit("address")>>))>>),
                         Cat(<<Bol, Lit("ip"), Eol>>)>>)],
      [tag |-> "dob",
       pattern |-> Alt(<<Cat(<<Lit("date"), Sep, Lit("of"), Sep, Lit("birth")>>),
                         Cat(<<WordB, Lit("dob"), WordB>>),
                         Cat(<<Lit("birth"), Sep, Lit("date")>>)>>)],
      [tag |-> "name",
       pattern |-> Alt(<<Cat(<<WordB, Lit("name"), WordB>>),
                         Cat(<<Lit("full"), Sep, Lit("name")>>),
                         Cat(<<Lit("first"), Sep, Lit("name")>>),
                         Cat(<<Lit("last"), Sep, Lit("name")>>)>>)],
      [tag |-> "national_id",
       pattern |-> Cat(<<WordB,
                         Alt(<<Lit("ssn"), Lit("nin"), Lit("passport"),
                               Cat(<<Lit("national"), Sep, Lit("id")>>),
                               Lit("aadhar"), Lit("aadhaar")>>),
                         WordB>>)]>>

Letters == CharsOf("abcdefghijklmnopqrstuvwxyz") \cup CharsOf("ABCDEFGHIJKLMNOPQRSTUVWXYZ")

\* (?:25[0-5]|2[0-4]\d|[01]?\d\d?)
Octet ==
    Alt(<<Cat(<<Lit("25"), Class(CharsOf("012345"))>>),
          Cat(<<Lit("2"), Class(CharsOf("01234")), Class(Digits)>>),
          Cat(<<Opt(Class({"0", "1"})), Class(Digits), Opt(Class(Digits))>>)>>)

PII_VALUE_REGEXES ==
    <<[tag |-> "email",
       pattern |-> Cat(<<Bol,
                         Rep(Class(Letters \cup Digits \cup {".", "_", "%", "+", "-"}), 1, -1),
                         Lit("@"),
                         Rep(Class(Letters \cup Digits \cup {".", "-"}), 1, -1),
                         Lit("."),
                         Rep(Class(Letters), 2, -1),
                         Eol>>)],
      [tag |-> "phone",
       pattern |-> Cat(<<Bol,
                         Opt(Lit("+")),
                         Class(Digits),
                         Rep(Class(Digits \cup Spaces \cup {"(", ")", ".", "-"}), 7, -1),
                         Eol>>)],
      [tag |-> "ip",
       pattern |-> Cat(<<Bol, Rep(Cat(<<Octet, Lit(".")>>), 3, 3), Octet, Eol>>)],
      [tag |-> "dob",
       pattern |-> Cat(<<Bol,
                         Alt(<<Cat(<<Rep(Class(Digits), 4, 4), Lit("-"),
                                     Rep(Class(Digits), 2, 2), Lit("-"),
                                     Rep(Class(Digits), 2, 2)>>),
                               Cat(<<Rep(Class(Digits), 2, 2), Lit("/"),
                                     Rep(Class(Digits), 2, 2), Lit("/"),
                                     Rep(Class(Digits), 4, 4)>>)>>),
                         Eol>>)],
      [tag |-> "national_id",
       pattern |-> Cat(<<Bol,
                         Rep(Class(Digits), 3, 3), Opt(Lit("-")),
                         Rep(Class(Digits), 2, 2), Opt(Lit("-")),
                         Rep(Class(Digits), 4, 4),
                         Eol>>)]>>

\* Mutant: the loop does not stop at the first matching pattern, the last one wins
RECURSIVE NameTagFrom_LastWins(_, _)
NameTagFrom_LastWins(lower, k) ==
    IF k > Len(PII_COLUMN_NAME_PATTERNS) THEN None
    ELSE LET later == NameTagFrom_LastWins(lower, k + 1)
         IN  IF later # None THEN later
             ELSE IF Search(PII_COLUMN_NAME_PATTERNS[k].pattern, lower)
                  THEN Some(PII_COLUMN_NAME_PATTERNS[k].tag)
                  ELSE None

\* for tag, pattern in PII_COLUMN_NAME_PATTERNS.items(), from entry k on:
\*     if re.search(pattern, lower): return tag
\* return None
RECURSIVE NameTagFrom(_, _)
NameTagFrom(lower, k) ==
    IF k > Len(PII_COLUMN_NAME_PATTERNS) THEN None
    ELSE IF Search(PII_COLUMN_NAME_PATTERNS[k].pattern, lower)
         THEN Some(PII_COLUMN_NAME_PATTERNS[k].tag)
         ELSE NameTagFrom(lower, k + 1)

\* Mutant: the name is matched as it is written
DetectByName_NoLower(column_name) == NameTagFrom(column_name, 1)

\* detect_by_name(column_name): Optional[str]
DetectByName(column_name) == NameTagFrom(Lower(column_name), 1)

-----------------------------------------------------------------------------
(* Bounds and input domains of the evaluator *)

MaxPolicies == 2

MaxRows == 2

\* All sequences over S of length at most n
RECURSIVE SeqsUpTo(_, _)
SeqsUpTo(S, n) ==
    IF n = 0 THEN {<<>>}
    ELSE LET shorter == SeqsUpTo(S, n - 1)
         IN  shorter \cup {Append(q, x) : q \in {t \in shorter : Len(t) = n - 1}, x \in S}

\* Policy rules as the YAML document gives them: every key may be absent
PolicyPool ==
    [id                       : {None, Some("no_ssn")},
     forbidden_tags           : {None, Some(<<"national_id">>), Some(<<"phone", "email">>)},
     applies_to_tables        : {None, Some(<<>>), Some(<<"users">>)},
     table_name_prefix        : {None, Some("us"), Some("lo")},
     require_tag_for_detected : {None, Some(TRUE)}]

Rule(id, forbidden, tables, prefix, require) ==
    [id |-> id, forbidden_tags |-> forbidden, applies_to_tables |-> tables,
     table_name_prefix |-> prefix, require_tag_for_detected |-> require]

\* The rules that longer policy lists are built from
CorePolicies ==
    {Rule(Some("no_ssn"), Some(<<"national_id">>), None, None, None),
     Rule(Some("users_only"), Some(<<"phone", "email">>), Some(<<"users">>), None, None),
     Rule(Some("tagged"), None, None, None, Some(TRUE)),
     Rule(None, Some(<<"phone", "email">>), None, Some("lo"), Some(TRUE))}

\* Registry rows: the pii_tags cell is NaN (None) or a str
RowPool ==
    [table    : {"users", "logs", "usage"},
     column   : {"ssn", "contact"},
     pii_tags : {None, Some(""), Some("national_id"), Some("phone,email"), Some("name,email")}]

Row(table, column, cell) == [table |-> table, column |-> column, pii_tags |-> cell]

\* The rows that longer registries are built from
CoreRows ==
    {Row("users", "contact", Some("phone,email")),
     Row("logs", "ssn", Some("national_id")),
     Row("logs", "contact", None),
     Row("usage", "contact", Some(""))}

PolicyLists == {<<p>> : p \in PolicyPool} \cup SeqsUpTo(CorePolicies, MaxPolicies)

Registries == {<<r>> : r \in RowPool} \cup SeqsUpTo(CoreRows, MaxRows)

-----------------------------------------------------------------------------
(* policy_engine.py: evaluate_policies *)

\* The locals the outer loop reads from a policy dict; policy.get(key) with no
\* default gives None for an absent key, which the optional value already is
PolicyId(policy) == policy.id

Forbidden(policy) == ToSet(Get(policy.forbidden_tags, <<>>))

AppliesTables(policy) ==
    IF TruthySeq(Get(policy.applies_to_tables, <<>>))
    THEN Some(ToSet(Get(policy.applies_to_tables, <<>>)))
    ELSE None

NamePrefix(policy) == policy.table_name_prefix

RequireTagForDetected(policy) == Get(policy.require_tag_for_detected, FALSE)

\* tags = set(str(row["pii_tags"]).split(",")) if pd.notna(row["pii_tags"]) else set()
RowTags(row) ==
    IF row.pii_tags # None THEN ToSet(Split(row.pii_tags[1], ",")) ELSE {}

\* The two "continue" tests of the scope filter: TRUE when the row is skipped
SkippedByTables(policy, row) ==
    /\ AppliesTables(policy) # None
    /\ row.table \notin AppliesTables(policy)[1]

\* Mutant: the prefix filter is never applied
SkippedByPrefix_Never(policy, row) == FALSE

SkippedByPrefix(policy, row) ==
    /\ NamePrefix(policy) # None
    /\ TruthyStr(NamePrefix(policy)[1])
    /\ ~StartsWith(row.table, NamePrefix(policy)[1])

\* Mutant: the reason lists every tag of the row, not the intersection
ForbiddenViolation_AllTags(policy, row) ==
    [policy_id |-> PolicyId(policy),
     table     |-> row.table,
     column    |-> row.column,
     pii_tags  |-> Join(",", Sorted(RowTags(row))),
     reason    |-> "forbidden tags present: " \o Join(",", Sorted(RowTags(row)))]

ForbiddenViolation(policy, row) ==
    [policy_id |-> PolicyId(policy),
     table     |-> row.table,
     column    |-> row.column,
     pii_tags  |-> Join(",", Sorted(RowTags(row))),
     reason    |-> "forbidden tags present: "
                     \o Join(",", Sorted(RowTags(row) \cap Forbidden(policy)))]

\* Mutant: the missing-tag violation names the policy where the column belongs
MissingTagViolation_PolicyAsColumn(policy, row) ==
    [policy_id |-> PolicyId(policy),
     table     |-> row.table,
     column    |-> "policy",
     pii_tags  |-> "",
     reason    |-> "detected PII missing tag"]

MissingTagViolation(policy, row) ==
    [policy_id |-> PolicyId(policy),
     table     |-> row.table,
     column    |-> row.column,
     pii_tags  |-> "",
     reason    |-> "detected PII missing tag"]

\* Mutant: the missing-tag check does not look at the row's tags
EvalRow_MissingAlways(policy, row) ==
    IF SkippedByTables(policy, row) THEN <<>>
    ELSE IF SkippedByPrefix(policy, row) THEN <<>>
    ELSE (IF Forbidden(policy) # {} /\ (RowTags(row) \cap Forbidden(policy)) # {}
          THEN <<ForbiddenViolation(policy, row)>> ELSE <<>>)
         \o
         (IF RequireTagForDetected(policy)
          THEN <<MissingTagViolation(policy, row)>> ELSE <<>>)

\* The violations one pass of the inner loop body appends, in order
EvalRow(policy, row) ==
    IF SkippedByTables(policy, row) THEN <<>>
    ELSE IF SkippedByPrefix(policy, row) THEN <<>>
    ELSE (IF Forbidden(policy) # {} /\ (RowTags(row) \cap Forbidden(policy)) # {}
          THEN <<ForbiddenViolation(policy, row)>> ELSE <<>>)
         \o
         (IF RequireTagForDetected(policy) /\ RowTags(row) = {}
          THEN <<MissingTagViolation(policy, row)>> ELSE <<>>)

\* Mutant: new violations are put in front of the list
AppendAll_Prepend(list, vs) == vs \o list

\* violations.append(v) for each v of vs
AppendAll(list, vs) == list \o vs

\* policies.get("policies", [])
PolicyList == Get(policies, <<>>)

\* evaluate_policies(policies, registry) is entered: violations = []
StartEvaluate ==
    /\ epc = "idle"
    /\ epc' = "loop"
    /\ violations' = <<>>
    /\ origin' = <<>>
    /\ pidx' = 1
    /\ ridx' = 1
    /\ UNCHANGED <<policies, registry, prev, sweepVars, nameVars, scanVars, mainVars, auxVars>>

\* One pass of the inner loop body: the row at ridx under the policy at pidx
EvaluateRow ==
    /\ epc = "loop"
    /\ pidx <= Len(PolicyList)
    /\ ridx <= Len(registry)
    /\ LET emitted == EvalRow(PolicyList[pidx], registry[ridx])
       IN  /\ violations' = AppendAll(violations, emitted)
           /\ origin' = origin \o [k \in 1..Len(emitted) |-> <<pidx, ridx>>]
    /\ ridx' = ridx + 1
    /\ UNCHANGED <<policies, registry, pidx, epc, prev, sweepVars, nameVars, scanVars, mainVars, auxVars>>

\* registry.iterrows() is exhausted: the outer loop takes the next policy
NextPolicy ==
    /\ epc = "loop"
    /\ pidx <= Len(PolicyList)
    /\ ridx > Len(registry)
    /\ pidx' = pidx + 1
    /\ ridx' = 1
    /\ UNCHANGED <<policies, registry, violations, origin, epc, prev, sweepVars, nameVars, scanVars, mainVars, auxVars>>

\* The outer loop is exhausted: return violations
ReturnViolations ==
    /\ epc = "loop"
    /\ pidx > Len(PolicyList)
    /\ epc' = "done"
    /\ UNCHANGED <<policies, registry, pidx, ridx, violations, origin, prev, sweepVars, nameVars, scanVars, mainVars, auxVars>>

\* The caller keeps the returned list and calls once more with the same arguments
CallAgain ==
    /\ epc = "done"
    /\ prev = None
    /\ prev' = Some(violations)
    /\ epc' = "idle"
    /\ UNCHANGED <<policies, registry, pidx, ridx, violations, origin, sweepVars, nameVars, scanVars, mainVars, auxVars>>

\* No evaluation in progress, on empty arguments
IdleEvaluate ==
    /\ pidx = 1
    /\ ridx = 1
    /\ violations = <<>>
    /\ origin = <<>>
    /\ epc = "idle"
    /\ prev = None

IdleSweep ==
    /\ sweepTodo = {}
    /\ pairCounts = {}

IdleName ==
    /\ colName = ""
    /\ nameTag = None
    /\ loweredTag = None
    /\ npc = "start"

IdleScan ==
    /\ df = <<>>
    /\ tableName = ""
    /\ cidx = 1
    /\ results = <<>>
    /\ locals = <<>>
    /\ spc = "idle"

IdleMain ==
    /\ dataDir = {}
    /\ csvs = <<>>
    /\ tidx = 1
    /\ allResults = <<>>
    /\ report = None
    /\ prevReport = None
    /\ mpc = "idle"

IdleMask ==
    /\ maskFn = ""
    /\ maskArg = None
    /\ maskChar = None
    /\ maskOut = None

IdleMaskFrame ==
    /\ callerDf = <<>>
    /\ dfBefore = <<>>
    /\ copyDf = None
    /\ columnTypes = <<>>
    /\ inplace = FALSE
    /\ ctidx = 1
    /\ frameOut = None
    /\ fpc = "idle"

IdleTracker ==
    /\ clock = 0
    /\ trackerViolations = <<>>
    /\ violationsDb = <<>>
    /\ addCalls = 0
    /\ lastCall = None
    /\ stats = None
    /\ alertHistory = <<>>
    /\ alertFile = <<>>
    /\ seenAtAlert = 0
    /\ lastCheck = None

IdlePipeline ==
    /\ environment = [scan_raises |-> FALSE, policies_raise |-> FALSE,
                      pii_scan |-> [state |-> "absent", rows |-> 0],
                      violations |-> [state |-> "absent", rows |-> 0]]
    /\ stages = <<>>
    /\ pipelineLog = <<>>
    /\ pipelineResult = None
    /\ exitStatus = None
    /\ ppc = "start"

IdleAux ==
    /\ IdleMask
    /\ IdleMaskFrame
    /\ IdleTracker
    /\ IdlePipeline

InitEvaluate ==
    /\ policies \in {None} \cup {Some(pl) : pl \in PolicyLists}
    /\ registry \in Registries
    /\ IdleEvaluate
    /\ IdleSweep
    /\ IdleName
    /\ IdleScan
    /\ IdleMain
    /\ IdleAux

NextEvaluate ==
    \/ StartEvaluate
    \/ EvaluateRow
    \/ NextPolicy
    \/ ReturnViolations
    \/ CallAgain

SpecEvaluate == InitEvaluate /\ [][NextEvaluate]_vars

-----------------------------------------------------------------------------
(* Every rule of the pool in turn, alone, against every row of the pool *)

SweepPolicies == PolicyPool \cup CorePolicies

SweepRows == RowPool \cup CoreRows

\* evaluate_policies on a list of one rule not evaluated yet and a registry of
\* all of SweepRows: the sizes of what each row made it append
SweepStep ==
    /\ sweepTodo # {}
    /\ LET policy == CHOOSE p \in sweepTodo : TRUE
       IN  /\ pairCounts' = pairCounts \cup
                  {Len(EvalRow(policy, row)) : row \in SweepRows}
           /\ sweepTodo' = sweepTodo \ {policy}
    /\ UNCHANGED <<evalVars, nameVars, scanVars, mainVars, auxVars>>

InitSweep ==
    /\ policies = None
    /\ registry = <<>>
    /\ IdleEvaluate
    /\ sweepTodo = SweepPolicies
    /\ pairCounts = {}
    /\ IdleName
    /\ IdleScan
    /\ IdleMain
    /\ IdleAux

NextSweep == SweepStep

SpecSweep == InitSweep /\ [][NextSweep]_vars

-----------------------------------------------------------------------------
(* detect_by_name on a column name, then on the same name in lower case *)

MaxTokens == 3

\* Column names are made of these pieces
NameTokens == {"e", "mail", "phone", "ip", "dob", "name", "ssn", "_", "-", "x", "E", "IP"}

RECURSIVE Concat(_)
Concat(pieces) == IF Len(pieces) = 0 THEN "" ELSE pieces[1] \o Concat(Tail(pieces))

\* The names the tests of detect_by_name and of its case-insensitivity use
TestNames ==
    {"email", "user_email", "e_mail", "contact_email",
     "phone", "phone_number", "mobile",
     "ip", "ip_address", "ip-address",
     "username", "user_id", "description",
     "UserEmail", "PHONE_NUMBER", "IpAddress"}

ColumnNames == {Concat(q) : q \in SeqsUpTo(NameTokens, MaxTokens) \ {<<>>}} \cup TestNames

UpperLetters == "ABCDEFGHIJKLMNOPQRSTUVWXYZ"

\* The name with every upper-case letter replaced by its lower-case letter
RECURSIVE FoldCase(_)
FoldCase(s) ==
    IF s = "" THEN ""
    ELSE LET c == CharAt(s, 1)
             k == IndexIn(UpperLetters, c)
         IN  (IF k > 0 THEN CharAt(AsciiHigh, k) ELSE c) \o FoldCase(SubSeq(s, 2, Len(s)))

\* name_tag = detect_by_name(col)
CallDetectByName ==
    /\ npc = "start"
    /\ nameTag' = DetectByName(colName)
    /\ npc' = "named"
    /\ UNCHANGED <<colName, loweredTag, evalVars, sweepVars, scanVars, mainVars, auxVars>>

\* A later call, on the same name written in lower case
CallDetectByNameLowered ==
    /\ npc = "named"
    /\ loweredTag' = DetectByName(FoldCase(colName))
    /\ npc' = "both"
    /\ UNCHANGED <<colName, nameTag, evalVars, sweepVars, scanVars, mainVars, auxVars>>

InitName ==
    /\ policies = None
    /\ registry = <<>>
    /\ IdleEvaluate
    /\ IdleSweep
    /\ colName \in ColumnNames
    /\ nameTag = None
    /\ loweredTag = None
    /\ npc = "start"
    /\ IdleScan
    /\ IdleMain
    /\ IdleAux

NextName ==
    \/ CallDetectByName
    \/ CallDetectByNameLowered

SpecName == InitName /\ [][NextName]_vars

-----------------------------------------------------------------------------
(* A pandas column: its name, its dtype and its cells.  A cell is None/NaN, *)
(* a str or an integer number.                                              *)

Null == [kind |-> "null", s |-> "", n |-> 0]

Str(text) == [kind |-> "str", s |-> text, n |-> 0]

Num(number) == [kind |-> "int", s |-> "", n |-> number]

Column(name, dtype, values) == [name |-> name, dtype |-> dtype, values |-> values]

\* str(n) for an int n
RECURSIVE IntToStr(_)
IntToStr(n) ==
    IF n < 0 THEN "-" \o IntToStr(-n)
    ELSE IF n < 10 THEN CharAt("0123456789", n + 1)
    ELSE IntToStr(n \div 10) \o CharAt("0123456789", (n % 10) + 1)

\* series.dropna()
DropNa(values) == SelectSeq(values, LAMBDA cell : cell.kind # "null")

\* series.astype(str): str(v) of every cell; a float64 column holds 1 as 1.0
\* (the callers drop the null cells first)
AsTypeStr(values, dtype) ==
    [i \in 1..Len(values) |->
        IF values[i].kind = "str" THEN values[i].s
        ELSE IF values[i].kind = "null" THEN IF dtype = "object" THEN "None" ELSE "nan"
        ELSE IF dtype = "float64" THEN IntToStr(values[i].n) \o ".0"
        ELSE IntToStr(values[i].n)]

\* series.head(n)
HeadOf(values, n) == SubSeq(values, 1, IF Len(values) < n THEN Len(values) ELSE n)

\* sum(1 for v in sample if pattern.match(v))
MatchCount(pattern, sample) ==
    LET hits == {text \in ToSet(sample) : Match(pattern, text)}
    IN Cardinality({i \in 1..Len(sample) : sample[i] \in hits})

RECURSIVE ValueTagFrom(_, _)
ValueTagFrom(sample, k) ==
    IF k > Len(PII_VALUE_REGEXES) THEN None
    ELSE IF MatchCount(PII_VALUE_REGEXES[k].pattern, sample) >= 3
         THEN Some(PII_VALUE_REGEXES[k].tag)
         ELSE ValueTagFrom(sample, k + 1)

DetectByValues(series) ==
    LET sample == HeadOf(AsTypeStr(DropNa(series.values), series.dtype), 50)
    IN IF sample = <<>> THEN None ELSE ValueTagFrom(sample, 1)

\* " " in v
HasSpace(text) == \E i \in 1..Len(text) : CharAt(text, i) = " "

\* Mutant: four values with a space are enough
NameWithSpaces_FourSuffice(series) ==
    LET sampled == HeadOf(AsTypeStr(DropNa(series.values), series.dtype), 20)
    IN Cardinality({i \in 1..Len(sampled) : HasSpace(sampled[i])}) >= 4

\* the heuristic of scan_dataframe, once "not tags" and the dtype hold
NameWithSpaces(series) ==
    LET sampled == HeadOf(AsTypeStr(DropNa(series.values), series.dtype), 20)
        spaced == {text \in ToSet(sampled) : HasSpace(text)}
    IN /\ sampled # <<>>
       /\ Cardinality({i \in 1..Len(sampled) : sampled[i] \in spaced}) >= 5

\* Mutant: the tags are kept in the order the steps appended them
SortedList_AsAppended(list) == list

\* sorted(tags) for a list of str
RECURSIVE SortedList(_)
SortedList(list) ==
    IF list = <<>> THEN <<>>
    ELSE LET rest == SortedList(Tail(list))
             k == Cardinality({i \in 1..Len(rest) : StrLess(rest[i], Head(list))})
         IN SubSeq(rest, 1, k) \o <<Head(list)>> \o SubSeq(rest, k + 1, Len(rest))

ColumnPIIResult(table, column, detected_tags, detection_reason) ==
    [table |-> table, column |-> column,
     detected_tags |-> detected_tags, detection_reason |-> detection_reason]

\* Mutant: the name of a column without any non-null value is not looked at
ScanColumnTags_NameNeedsValues(col) ==
    LET name_tag == IF DropNa(col.values) = <<>> THEN None ELSE DetectByName(col.name)
        tags1 == IF name_tag # None THEN <<name_tag[1]>> ELSE <<>>
        reason1 == IF name_tag # None THEN <<"name:" \o name_tag[1]>> ELSE <<>>
        value_tag == DetectByValues(col)
        add2 == value_tag # None /\ value_tag[1] \notin ToSet(tags1)
        tags2 == IF add2 THEN Append(tags1, value_tag[1]) ELSE tags1
        reason2 == IF add2 THEN Append(reason1, "value:" \o value_tag[1]) ELSE reason1
        heuristic == tags2 = <<>> /\ col.dtype = "object" /\ NameWithSpaces(col)
    IN [tags |-> IF heuristic THEN Append(tags2, "name") ELSE tags2,
        reason_parts |-> IF heuristic THEN Append(reason2, "heuristic:name_with_spaces")
                         ELSE reason2,
        name_tag |-> name_tag,
        value_tag |-> value_tag,
        heuristic |-> heuristic]

\* Mutant: the fallback does not ask whether a tag was found already
ScanColumnTags_FallbackRegardless(col) ==
    LET name_tag == DetectByName(col.name)
        tags1 == IF name_tag # None THEN <<name_tag[1]>> ELSE <<>>
        reason1 == IF name_tag # None THEN <<"name:" \o name_tag[1]>> ELSE <<>>
        value_tag == DetectByValues(col)
        add2 == value_tag # None /\ value_tag[1] \notin ToSet(tags1)
        tags2 == IF add2 THEN Append(tags1, value_tag[1]) ELSE tags1
        reason2 == IF add2 THEN Append(reason1, "value:" \o value_tag[1]) ELSE reason1
        heuristic == col.dtype = "object" /\ NameWithSpaces(col)
    IN [tags |-> IF heuristic THEN Append(tags2, "name") ELSE tags2,
        reason_parts |-> IF heuristic THEN Append(reason2, "heuristic:name_with_spaces")
                         ELSE reason2,
        name_tag |-> name_tag,
        value_tag |-> value_tag,
        heuristic |-> heuristic]

\* The body of the loop of scan_dataframe up to "if tags:": the two lists and
\* what each detection step found
ScanColumnTags(col) ==
    LET name_tag == DetectByName(col.name)
        tags1 == IF name_tag # None THEN <<name_tag[1]>> ELSE <<>>
        reason1 == IF name_tag # None THEN <<"name:" \o name_tag[1]>> ELSE <<>>
        value_tag == DetectByValues(col)
        add2 == value_tag # None /\ value_tag[1] \notin ToSet(tags1)
        tags2 == IF add2 THEN Append(tags1, value_tag[1]) ELSE tags1
        reason2 == IF add2 THEN Append(reason1, "value:" \o value_tag[1]) ELSE reason1
        heuristic == tags2 = <<>> /\ col.dtype = "object" /\ NameWithSpaces(col)
    IN [tags |-> IF heuristic THEN Append(tags2, "name") ELSE tags2,
        reason_parts |-> IF heuristic THEN Append(reason2, "heuristic:name_with_spaces")
                         ELSE reason2,
        name_tag |-> name_tag,
        value_tag |-> value_tag,
        heuristic |-> heuristic]

\* Mutant: every column is appended, tagged or not
RetainColumn_Always(tags) == TRUE

\* if tags:
RetainColumn(tags) == tags # <<>>

StartScan ==
    /\ spc = "idle"
    /\ results' = <<>>
    /\ locals' = <<>>
    /\ cidx' = 1
    /\ spc' = "loop"
    /\ UNCHANGED <<df, tableName, evalVars, sweepVars, nameVars, mainVars, auxVars>>

\* One pass of the loop over df.columns
ScanColumn ==
    /\ spc = "loop"
    /\ cidx <= Len(df)
    /\ LET col == df[cidx]
           found == ScanColumnTags(col)
           joined == Join(",", found.reason_parts)
       IN /\ results' =
                IF RetainColumn(found.tags)
                THEN Append(results,
                            ColumnPIIResult(tableName, col.name, SortedList(found.tags),
                                            IF joined = "" THEN "n/a" ELSE joined))
                ELSE results
          /\ locals' = Append(locals, [name_tag |-> found.name_tag,
                                       value_tag |-> found.value_tag,
                                       heuristic |-> found.heuristic])
    /\ cidx' = cidx + 1
    /\ UNCHANGED <<df, tableName, spc, evalVars, sweepVars, nameVars, mainVars, auxVars>>

ReturnResults ==
    /\ spc = "loop"
    /\ cidx > Len(df)
    /\ spc' = "done"
    /\ UNCHANGED <<df, tableName, cidx, results, locals, evalVars, sweepVars, nameVars, mainVars, auxVars>>

\* Mutant: the tags are joined by ", "
ResultsToDataframe_CommaSpace(rs) ==
    [k \in 1..Len(rs) |->
        [table |-> rs[k].table,
         column |-> rs[k].column,
         pii_tags |-> Join(", ", rs[k].detected_tags),
         reason |-> rs[k].detection_reason]]

\* results_to_dataframe: the rows of the registry
ResultsToDataframe(rs) ==
    [k \in 1..Len(rs) |->
        [table |-> rs[k].table,
         column |-> rs[k].column,
         pii_tags |-> Join(",", rs[k].detected_tags),
         reason |-> rs[k].detection_reason]]

\* The frames scanned: one column of contact_field over series made of runs of
\* equal cells, and frames of a few named columns

MaxBlocks == 3

MaxCols == 2

\* Runs of cells no pattern accepts, up to the edge of the 50-value sample,
\* runs of null cells, and runs around the threshold of 3 of cells some pattern
\* accepts
Blocks ==
    ({Str("hello")} \X {47, 48})
    \cup ({Null} \X {2, 48})
    \cup ({Str("a@b.com"), Str("123-45-6789"), Str("a@b.com\n")} \X {2, 3})

Run(cell, n) == [i \in 1..n |-> cell]

RECURSIVE Flatten(_)
Flatten(blocks) ==
    IF blocks = <<>> THEN <<>>
    ELSE Run(blocks[1][1], blocks[1][2]) \o Flatten(Tail(blocks))

BlockSeries == {Flatten(blocks) : blocks \in SeqsUpTo(Blocks, MaxBlocks)}

\* The dtypes a pandas column of these cells can have
Dtypes(values) ==
    LET kinds == {values[i].kind : i \in 1..Len(values)}
    IN IF "str" \in kinds THEN {"object"}
       ELSE IF "null" \in kinds THEN {"object", "float64"}
       ELSE {"object", "int64"}

ScenarioB ==
    Column("contact_field", "object",
           <<Str("a@b.com"), Str("c@d.com"), Str("e@f.com"), Str("hello")>>)

CoreColumns ==
    {ScenarioB,
     Column("user_email", "object", <<>>),
     Column("user_email", "object", Run(Str("a@b.com"), 3)),
     Column("user_email", "object", <<Str("x"), Str("y"), Str("z")>>),
     Column("user_email", "object", <<Null, Null>>),
     Column("ssn", "object", Run(Str("123-45-6789"), 3)),
     Column("phone", "object", Run(Str("a@b.com"), 3)),
     Column("user_email", "object", Run(Str("John Doe"), 5)),
     Column("notes", "object", Run(Str("555 111 2222"), 5)),
     Column("non_pii_column", "int64", <<Num(1), Num(2), Num(3)>>),
     Column("amount", "float64", <<Null>> \o Run(Num(12345678), 3)),
     Column("notes", "object", Run(Str("John Doe"), 5)),
     Column("notes", "object", Run(Str("John Doe"), 4))}

\* Runs around the 20-value window and the threshold of 5 of the heuristic: cells
\* without white space, null cells, cells with a space and cells with a tab
SpacedBlocks ==
    ({Str("x")} \X {15, 16})
    \cup ({Null} \X {2})
    \cup ({Str("John Doe"), Str("John\tDoe")} \X {4, 5})

SpacedSeries == {Flatten(blocks) : blocks \in SeqsUpTo(SpacedBlocks, MaxBlocks)}

ColumnPool ==
    {Column("contact_field", dtype, values) :
        <<dtype, values>> \in {dv \in {"object", "float64", "int64"} \X BlockSeries :
                                   dv[1] \in Dtypes(dv[2])}}
    \cup {Column("notes", dtype, values) :
        <<dtype, values>> \in {dv \in {"object", "float64", "int64"} \X SpacedSeries :
                                   dv[1] \in Dtypes(dv[2])}}
    \cup CoreColumns

\* The frame of test_mixed_pii_values
MixedFrame ==
    <<Column("mixed_column", "object",
             <<Str("test@example.com"), Str("not_an_email"),
               Str("user@domain.com"), Str("12345")>>)>>

\* The frame of the fixture test_data
TestData ==
    <<Column("user_email", "object",
             <<Str("test@example.com"), Str("user@domain.com"), Str("another@test.co")>>),
      Column("phone_number", "object",
             <<Str("+1-555-123-4567"), Str("(555) 987-6543"), Str("555-111-2222")>>),
      Column("ip_address", "object",
             <<Str("192.168.1.1"), Str("10.0.0.1"), Str("172.16.254.1")>>),
      Column("date_of_birth", "object",
             <<Str("1990-01-01"), Str("1985-12-31"), Str("2000-06-15")>>),
      Column("full_name", "object",
             <<Str("John Doe"), Str("Jane Smith"), Str("Bob Johnson")>>),
      Column("ssn", "object",
             <<Str("123-45-6789"), Str("987-65-4321"), Str("456-78-9012")>>),
      Column("non_pii_column", "int64", <<Num(1), Num(2), Num(3)>>),
      Column("empty_column", "object", <<Null, Null, Null>>)>>

TestFrames == {MixedFrame, TestData}

\* A DataFrame has no two columns of the same name here
Frames ==
    {<<col>> : col \in ColumnPool}
    \cup TestFrames
    \cup {frame \in SeqsUpTo(CoreColumns, MaxCols) :
             \A i, j \in 1..Len(frame) : frame[i].name = frame[j].name => i = j}

InitScan ==
    /\ policies = None
    /\ registry = <<>>
    /\ IdleEvaluate
    /\ IdleSweep
    /\ IdleName
    /\ df \in Frames
    /\ tableName = "test_table"
    /\ cidx = 1
    /\ results = <<>>
    /\ locals = <<>>
    /\ spc = "idle"
    /\ IdleMain
    /\ IdleAux

NextScan ==
    \/ StartScan
    \/ ScanColumn
    \/ ReturnResults

SpecScan == InitScan /\ [][NextScan]_vars

-----------------------------------------------------------------------------
(* scan_pii.main: every CSV file of the data directory, in the order of      *)
(* find_csvs, is loaded and scanned, and the results are written as one      *)
(* report.  A file is its name and the table pandas loads from it.           *)

\* What one pass of the loop of scan_dataframe appends
ColumnEntries(table_name, col) ==
    LET found == ScanColumnTags(col)
        joined == Join(",", found.reason_parts)
    IN IF RetainColumn(found.tags)
       THEN <<ColumnPIIResult(table_name, col.name, SortedList(found.tags),
                              IF joined = "" THEN "n/a" ELSE joined)>>
       ELSE <<>>

\* scan_dataframe(frame, table_name) as a whole
RECURSIVE ScanDataframe(_, _)
ScanDataframe(frame, table_name) ==
    IF frame = <<>> THEN <<>>
    ELSE ScanDataframe(SubSeq(frame, 1, Len(frame) - 1), table_name)
         \o ColumnEntries(table_name, frame[Len(frame)])

EndsWith(s, suffix) ==
    Len(suffix) <= Len(s) /\ SubSeq(s, Len(s) - Len(suffix) + 1, Len(s)) = suffix

\* find_csvs: sorted(p for p in data_dir.glob("*.csv"))
FindCsvs(files) ==
    LET names == Sorted({f.name : f \in {g \in files : EndsWith(g.name, ".csv")}})
    IN [k \in 1..Len(names) |-> CHOOSE f \in files : f.name = names[k]]

\* csv_path.stem of a name that ends in .csv
Stem(name) == SubSeq(name, 1, Len(name) - 4)

\* pd.read_csv(csv_path)
ReadCsv(file) == file.frame

\* Mutant: the results of a table are put in front of the list
ExtendAll_InFront(list, more) == more \o list

\* all_results.extend(more)
ExtendAll(list, more) == list \o more

MaxFiles == 3

FileNames == {"users.csv", "logs.csv", "a-b.csv", "notes.txt"}

FileFrames ==
    {<<>>,
     <<Column("user_email", "object", <<Str("x"), Str("y"), Str("z")>>),
       Column("non_pii_column", "int64", <<Num(1), Num(2), Num(3)>>),
       Column("ssn", "object", Run(Str("123-45-6789"), 3))>>,
     <<Column("id", "int64", <<>>), Column("phone", "object", <<>>)>>,
     <<Column("notes", "object", Run(Str("John Doe"), 5)),
       Column("contact_field", "object",
              <<Str("a@b.com"), Str("c@d.com"), Str("e@f.com"), Str("hello")>>)>>}

\* The directories: up to MaxFiles files of different names
DataDirs ==
    {ToSet(files) :
        files \in {fs \in SeqsUpTo([name : FileNames, frame : FileFrames], MaxFiles) :
                      \A i, j \in 1..Len(fs) : fs[i].name = fs[j].name => i = j}}

StartMain ==
    /\ mpc = "idle"
    /\ csvs' = FindCsvs(dataDir)
    /\ allResults' = <<>>
    /\ tidx' = 1
    /\ report' = None
    /\ mpc' = "loop"
    /\ UNCHANGED <<dataDir, prevReport, evalVars, sweepVars, nameVars, scanVars, auxVars>>

\* One pass of the loop over the CSV files
ScanTable ==
    /\ mpc = "loop"
    /\ tidx <= Len(csvs)
    /\ LET frame == ReadCsv(csvs[tidx])
           table_name == Stem(csvs[tidx].name)
       IN allResults' = ExtendAll(allResults, ScanDataframe(frame, table_name))
    /\ tidx' = tidx + 1
    /\ UNCHANGED <<dataDir, csvs, report, prevReport, mpc,
                   evalVars, sweepVars, nameVars, scanVars, auxVars>>

\* report_df = results_to_dataframe(all_results); report_df.to_csv(out_path)
WriteReport ==
    /\ mpc = "loop"
    /\ tidx > Len(csvs)
    /\ report' = Some(ResultsToDataframe(allResults))
    /\ mpc' = "done"
    /\ UNCHANGED <<dataDir, csvs, tidx, allResults, prevReport,
                   evalVars, sweepVars, nameVars, scanVars, auxVars>>

\* main is run once more on the same directory
RunMainAgain ==
    /\ mpc = "done"
    /\ prevReport = None
    /\ prevReport' = report
    /\ mpc' = "idle"
    /\ UNCHANGED <<dataDir, csvs, tidx, allResults, report,
                   evalVars, sweepVars, nameVars, scanVars, auxVars>>

InitMain ==
    /\ policies = None
    /\ registry = <<>>
    /\ IdleEvaluate
    /\ IdleSweep
    /\ IdleName
    /\ IdleScan
    /\ dataDir \in DataDirs
    /\ csvs = <<>>
    /\ tidx = 1
    /\ allResults = <<>>
    /\ report = None
    /\ prevReport = None
    /\ mpc = "idle"
    /\ IdleAux

NextMain ==
    \/ StartMain
    \/ ScanTable
    \/ WriteReport
    \/ RunMainAgain

SpecMain == InitMain /\ [][NextMain]_vars

-----------------------------------------------------------------------------
(* From the scanner's results to the evaluator's registry: scan_pii.py      *)
(* writes results_to_dataframe(...) with to_csv, policy_engine.py reads it  *)
(* back with pd.read_csv                                                    *)

\* The strings pd.read_csv reads as NaN
NaStrings ==
    {"", "#N/A", "#N/A N/A", "#NA", "-1.#IND", "-1.#QNAN", "-NaN", "-nan", "1.#IND",
     "1.#QNAN", "<NA>", "N/A", "NA", "NULL", "NaN", "None", "n/a", "nan", "null"}

\* A cell of text written by to_csv and read back by read_csv
ReadCell(text) == IF text \in NaStrings THEN None ELSE Some(text)

\* str(cell) of a cell read back
StrOfCell(cell) == IF cell = None THEN "nan" ELSE cell[1]

\* load_metadata_registry on the file the scanner wrote from report_rows, as
\* the rows evaluate_policies iterates over
LoadMetadataRegistry(report_rows) ==
    [k \in 1..Len(report_rows) |->
        [table |-> StrOfCell(ReadCell(report_rows[k].table)),
         column |-> StrOfCell(ReadCell(report_rows[k].column)),
         pii_tags |-> ReadCell(report_rows[k].pii_tags)]]

\* The columns the scanned frames are made of
RegistryColumns ==
    {Column("phone", "object", Run(Str("a@b.com"), 3)),
     Column("ssn", "object", Run(Str("123-45-6789"), 3)),
     Column("notes", "object", Run(Str("John Doe"), 5)),
     Column("ip_address", "object", Run(Str("2000-01-01"), 3)),
     Column("full_name", "object", Run(Str("+1 555 123 4567"), 3)),
     Column("non_pii_column", "int64", <<Num(1), Num(2), Num(3)>>)}

RegistryFrames ==
    {TestData}
    \cup {frame \in SeqsUpTo(RegistryColumns, MaxCols) :
             \A i, j \in 1..Len(frame) : frame[i].name = frame[j].name => i = j}

\* The rules the scanned registry is evaluated under
NoContact == Rule(Some("no_contact"), Some(<<"phone", "email">>), None, None, None)

NoIdentity ==
    Rule(Some("no_identity"), Some(<<"national_id", "name", "dob">>), Some(<<"users">>),
         None, None)

Tagged == Rule(Some("tagged"), None, None, Some("us"), Some(TRUE))

RegistryPolicyLists == {<<NoContact>>, <<NoIdentity, NoContact>>, <<Tagged, NoIdentity>>}

\* The scan report is written and read back as the registry
LoadRegistry ==
    /\ spc = "done"
    /\ epc = "idle"
    /\ registry = <<>>
    /\ TruthySeq(results)
    /\ registry' = LoadMetadataRegistry(ResultsToDataframe(results))
    /\ UNCHANGED <<policies, pidx, ridx, violations, origin, epc, prev,
                   sweepVars, nameVars, scanVars, mainVars, auxVars>>

\* evaluate_policies on the registry read back
EvaluateRegistry ==
    /\ TruthySeq(registry)
    /\ \/ StartEvaluate
       \/ EvaluateRow
       \/ NextPolicy
       \/ ReturnViolations

InitRegistry ==
    /\ policies \in {Some(pl) : pl \in RegistryPolicyLists}
    /\ registry = <<>>
    /\ IdleEvaluate
    /\ IdleSweep
    /\ IdleName
    /\ df \in RegistryFrames
    /\ tableName = "users"
    /\ cidx = 1
    /\ results = <<>>
    /\ locals = <<>>
    /\ spc = "idle"
    /\ IdleMain
    /\ IdleAux

NextRegistry ==
    \/ StartScan
    \/ ScanColumn
    \/ ReturnResults
    \/ LoadRegistry
    \/ EvaluateRegistry

SpecRegistry == InitRegistry /\ [][NextRegistry]_vars

-----------------------------------------------------------------------------
(* masking_utils.py: PIIMasker *)

\* How a call ended: it returned an optional str, or it raised
Returned(value) == [kind |-> "return", value |-> value]

Raised(error) == [kind |-> "raise", value |-> Some(error)]

\* self.mask_char
DefaultMaskChar == "X"

\* self.preserve_last
PreserveLast == [email |-> 4, phone |-> 2, ssn |-> 4, credit_card |-> 4]

\* mask_char or self.mask_char
MaskCharOr(mask_char) ==
    IF mask_char = None \/ ~TruthyStr(mask_char[1]) THEN DefaultMaskChar ELSE mask_char[1]

Min(a, b) == IF a <= b THEN a ELSE b

\* text * n
RECURSIVE Times(_, _)
Times(text, n) == IF n <= 0 THEN "" ELSE text \o Times(text, n - 1)

\* text[-n:]: the last n characters for n > 0, and the whole text for n = 0,
\* -0 being 0
LastChars(text, n) ==
    IF n > 0
    THEN SubSeq(text, (IF Len(text) - n + 1 < 1 THEN 1 ELSE Len(text) - n + 1), Len(text))
    ELSE SubSeq(text, 1 - n, Len(text))

\* re.sub(r'\D', '', text)
RECURSIVE DigitsOnly(_)
DigitsOnly(text) ==
    IF text = "" THEN ""
    ELSE (IF CharAt(text, 1) \in Digits THEN CharAt(text, 1) ELSE "")
            \o DigitsOnly(SubSeq(text, 2, Len(text)))

\* The loop "for c in reversed(phone)" from position i down, and the final
\* ''.join(reversed(result)); m_pos counts from 0 as in the code
RECURSIVE Reinsert(_, _, _, _)
Reinsert(phone, masked, i, m_pos) ==
    IF i = 0 THEN ""
    ELSE IF CharAt(phone, i) \in Digits
         THEN IF m_pos >= 0
              THEN Reinsert(phone, masked, i - 1, m_pos - 1) \o CharAt(masked, m_pos + 1)
              ELSE Reinsert(phone, masked, i - 1, m_pos)
         ELSE Reinsert(phone, masked, i - 1, m_pos) \o CharAt(phone, i)

\* The digit string mask_phone builds before it restores the format
MaskedDigits(digits, mc) ==
    LET preserve == Min(PreserveLast.phone, Len(digits) - 1)
    IN  Times(mc, Len(digits) - preserve) \o LastChars(digits, preserve)

MaskPhone(phone, mask_char) ==
    IF phone = None \/ ~TruthyStr(phone[1]) THEN phone
    ELSE LET mc == MaskCharOr(mask_char)
             digits == DigitsOnly(phone[1])
             masked == MaskedDigits(digits, mc)
         IN  IF ~TruthyStr(digits) THEN phone
             ELSE IF Len(phone[1]) > Len(digits)
                  THEN Some(Reinsert(phone[1], masked, Len(phone[1]), Len(masked) - 1))
                  ELSE Some(masked)

\* From "username, domain = email.split('@')" on: the unpacking raises
\* ValueError unless the split gives exactly two parts
MaskEmailParts(email, mc) ==
    LET parts == Split(email, "@")
    IN  IF Len(parts) # 2 THEN Raised("ValueError")
        ELSE LET username == parts[1]
                 domain == parts[2]
                 preserve == Min(PreserveLast.email, Len(username) - 1)
             IN  IF preserve > 0
                 THEN Returned(Some(Times(mc, Len(username) - preserve)
                                      \o LastChars(username, preserve) \o "@" \o domain))
                 ELSE Returned(Some(Times(mc, Len(username)) \o "@" \o domain))

MaskEmail(email, mask_char) ==
    IF email = None \/ ~TruthyStr(email[1]) \/ "@" \notin CharsOf(email[1])
    THEN Returned(email)
    ELSE MaskEmailParts(email[1], MaskCharOr(mask_char))

\* The longest generated argument
MaxMaskLen == 4

MaskAlphabet == {"1", "2", "-", "a", "@"}

\* The arguments of the tests and further ones of the same kinds
TestMaskArgs ==
    {"+1 (555) 123-4567", "1234567890", "abc", "+1555123456", "+1555765432",
     "test.user@example.com", "a@b.c", "not-an-email", "john@example.com",
     "abcdef@x.y", "user@@example.com", "555-0199 ext 7"}

MaskArgs ==
    {None} \cup {Some(Concat(q)) : q \in SeqsUpTo(MaskAlphabet, MaxMaskLen)}
           \cup {Some(text) : text \in TestMaskArgs}

MaskChars == {None, Some("X"), Some("#"), Some("")}

CallMaskPhone ==
    /\ maskFn = ""
    /\ maskFn' = "mask_phone"
    /\ maskOut' = Some(Returned(MaskPhone(maskArg, maskChar)))
    /\ UNCHANGED <<maskArg, maskChar, frameVars, trackVars, pipeVars,
                   evalVars, sweepVars, nameVars, scanVars, mainVars>>

CallMaskEmail ==
    /\ maskFn = ""
    /\ maskFn' = "mask_email"
    /\ maskOut' = Some(MaskEmail(maskArg, maskChar))
    /\ UNCHANGED <<maskArg, maskChar, frameVars, trackVars, pipeVars,
                   evalVars, sweepVars, nameVars, scanVars, mainVars>>

InitMask ==
    /\ policies = None
    /\ registry = <<>>
    /\ IdleEvaluate
    /\ IdleSweep
    /\ IdleName
    /\ IdleScan
    /\ IdleMain
    /\ maskFn = ""
    /\ maskArg \in MaskArgs
    /\ maskChar \in MaskChars
    /\ maskOut = None
    /\ IdleMaskFrame
    /\ IdleTracker
    /\ IdlePipeline

NextMask ==
    \/ CallMaskPhone
    \/ CallMaskEmail

SpecMask == InitMask /\ [][NextMask]_vars

-----------------------------------------------------------------------------
(* masking_utils.py: mask_field and mask_dataframe *)

\* The digits masked but for the last "preserve" ones, preserve >= 1
MaskedTail(digits, preserve, mc) ==
    Times(mc, Len(digits) - preserve) \o LastChars(digits, preserve)

MaskSsn(ssn, mask_char) ==
    IF ssn = None \/ ~TruthyStr(ssn[1]) THEN ssn
    ELSE LET mc == MaskCharOr(mask_char)
             digits == DigitsOnly(ssn[1])
             masked == MaskedTail(digits, Min(PreserveLast.ssn, Len(digits)), mc)
         IN  IF ~TruthyStr(digits) THEN ssn
             ELSE IF Len(digits) = 9
                  THEN Some(SubSeq(masked, 1, 3) \o "-" \o SubSeq(masked, 4, 5)
                               \o "-" \o SubSeq(masked, 6, Len(masked)))
                  ELSE Some(masked)

\* [masked[i:i+4] for i in range(0, len(masked), 4)]
RECURSIVE Chunks(_)
Chunks(text) ==
    IF text = "" THEN <<>>
    ELSE <<SubSeq(text, 1, Min(4, Len(text)))>> \o Chunks(SubSeq(text, Min(4, Len(text)) + 1, Len(text)))

MaskCreditCard(card, mask_char) ==
    IF card = None \/ ~TruthyStr(card[1]) THEN card
    ELSE LET mc == MaskCharOr(mask_char)
             digits == DigitsOnly(card[1])
             masked == MaskedTail(digits, Min(PreserveLast.credit_card, Len(digits)), mc)
         IN  IF ~TruthyStr(digits) THEN card
             ELSE IF "-" \in CharsOf(card[1]) \/ " " \in CharsOf(card[1])
                  THEN Some(Join(" ", Chunks(masked)))
                  ELSE Some(masked)

\* text.split(): the runs of non-whitespace characters; word is the run read so far
RECURSIVE SplitWords(_, _)
SplitWords(text, word) ==
    IF text = "" THEN (IF word = "" THEN <<>> ELSE <<word>>)
    ELSE IF CharAt(text, 1) \in Spaces
         THEN (IF word = "" THEN <<>> ELSE <<word>>) \o SplitWords(SubSeq(text, 2, Len(text)), "")
         ELSE SplitWords(SubSeq(text, 2, Len(text)), word \o CharAt(text, 1))

MaskName(name, mask_char) ==
    IF name = None \/ ~TruthyStr(name[1]) THEN name
    ELSE LET mc == MaskCharOr(mask_char)
             parts == SplitWords(name[1], "")
             masked_parts == [i \in 1..Len(parts) |->
                                 IF Len(parts[i]) > 1
                                 THEN CharAt(parts[i], 1) \o Times(mc, Len(parts[i]) - 1)
                                 ELSE parts[i]]
         IN  Some(Join(" ", masked_parts))

MaskIp(ip, mask_char) ==
    IF ip = None \/ ~TruthyStr(ip[1]) THEN ip
    ELSE LET mc == MaskCharOr(mask_char)
             parts == Split(ip[1], ".")
         IN  IF Len(parts) # 4 THEN ip
             ELSE Some(parts[1] \o "." \o Times(mc, Len(parts[2])) \o "."
                          \o Times(mc, Len(parts[3])) \o "." \o parts[4])

\* mask_field on a cell that is None or a str (str(value) is then value)
MaskField(value, field_type, mask_char) ==
    IF value = None \/ ~TruthyStr(value[1]) THEN Returned(value)
    ELSE LET mc == Some(MaskCharOr(mask_char))
             kind == Lower(field_type)
         IN  IF kind = "email" THEN MaskEmail(value, mc)
             ELSE IF kind = "phone" THEN Returned(MaskPhone(value, mc))
             ELSE IF kind = "ssn" THEN Returned(MaskSsn(value, mc))
             ELSE IF kind = "credit_card" THEN Returned(MaskCreditCard(value, mc))
             ELSE IF kind = "name" THEN Returned(MaskName(value, mc))
             ELSE IF kind = "ip" THEN Returned(MaskIp(value, mc))
             ELSE Returned(Some(Times(mc[1], Len(value[1]))))

\* df[column].apply(lambda x: self.mask_field(x, field_type)): the new
\* values, or the exception of the first cell whose masking raises
ApplyMaskField(values, field_type) ==
    LET outs == [i \in 1..Len(values) |-> MaskField(values[i], field_type, None)]
    IN  IF \E i \in 1..Len(outs) : outs[i].kind = "raise"
        THEN [kind |-> "raise", values |-> <<>>]
        ELSE [kind |-> "return", values |-> [i \in 1..Len(outs) |-> outs[i].value]]

\* column in df.columns
ColumnAt(frame, column) ==
    IF \E i \in 1..Len(frame) : frame[i].name = column
    THEN CHOOSE i \in 1..Len(frame) : frame[i].name = column
    ELSE 0

\* df[column] = values
SetColumn(frame, column, values) ==
    [frame EXCEPT ![ColumnAt(frame, column)].values = values]

\* A frame to mask: its columns in order, each [name, values], a cell being
\* None or Some(str)
MaskColumn(name, values) == [name |-> name, values |-> values]

MaskFrames ==
    {<<MaskColumn("name", <<Some("John Doe"), Some("Jane Smith")>>),
       MaskColumn("email", <<Some("john@example.com"), Some("jane@example.com")>>),
       MaskColumn("phone", <<Some("+1555123456"), Some("+1555765432")>>)>>,
     <<MaskColumn("email", <<Some("a@b.c"), Some("user@@example.com")>>),
       MaskColumn("notes", <<Some("hello"), None>>)>>,
     <<MaskColumn("ssn", <<Some("123-45-6789"), Some("12")>>),
       MaskColumn("card", <<Some("4111 1111 1111 1111"), Some("4111111111111111")>>),
       MaskColumn("ip", <<Some("192.168.1.100"), Some("not.an.ip")>>)>>,
     <<MaskColumn("notes", <<Some("unknown"), Some("")>>),
       MaskColumn("phone", <<Some("5"), None>>),
       MaskColumn("name", <<Some("A"), Some("Mary Ann  Lee")>>)>>,
     <<>>}

\* The items a column_types dict may hold
ColumnTypeItems ==
    {[column |-> "name", field_type |-> "name"],
     [column |-> "email", field_type |-> "email"],
     [column |-> "email", field_type |-> "EMAIL"],
     [column |-> "phone", field_type |-> "phone"],
     [column |-> "ssn", field_type |-> "ssn"],
     [column |-> "card", field_type |-> "credit_card"],
     [column |-> "ip", field_type |-> "ip"],
     [column |-> "notes", field_type |-> "unknown_type"],
     [column |-> "missing", field_type |-> "email"]}

\* The largest number of items of column_types
MaxTypes == 2

\* column_types: a dict, so its keys are distinct; the items in insertion order
ColumnTypeDicts ==
    {items \in SeqsUpTo(ColumnTypeItems, MaxTypes) :
        \A i, j \in 1..Len(items) : items[i].column = items[j].column => i = j}

\* The frame the local name df is bound to: the caller's, or the copy
LocalFrame == IF inplace THEN callerDf ELSE copyDf[1]

\* if not inplace: df = df.copy()
StartMaskFrame ==
    /\ fpc = "idle"
    /\ copyDf' = IF inplace THEN None ELSE Some(callerDf)
    /\ ctidx' = 1
    /\ fpc' = "loop"
    /\ UNCHANGED <<callerDf, dfBefore, columnTypes, inplace, frameOut, maskVars, trackVars, pipeVars,
                   evalVars, sweepVars, nameVars, scanVars, mainVars>>

\* One pass of the loop over column_types.items()
MaskOneColumn ==
    /\ fpc = "loop"
    /\ ctidx <= Len(columnTypes)
    /\ LET column == columnTypes[ctidx].column
           field_type == columnTypes[ctidx].field_type
           present == ColumnAt(LocalFrame, column) > 0
           applied == IF present
                      THEN ApplyMaskField(LocalFrame[ColumnAt(LocalFrame, column)].values,
                                          field_type)
                      ELSE [kind |-> "return", values |-> <<>>]
       IN  IF applied.kind = "raise"
           THEN /\ frameOut' = Some([kind |-> "raise", frame |-> None])
                /\ fpc' = "done"
                /\ UNCHANGED <<callerDf, copyDf, ctidx>>
           ELSE /\ callerDf' = IF present /\ inplace
                               THEN SetColumn(callerDf, column, applied.values)
                               ELSE callerDf
                /\ copyDf' = IF present /\ ~inplace
                             THEN Some(SetColumn(copyDf[1], column, applied.values))
                             ELSE copyDf
                /\ ctidx' = ctidx + 1
                /\ UNCHANGED <<frameOut, fpc>>
    /\ UNCHANGED <<dfBefore, columnTypes, inplace, maskVars, trackVars, pipeVars,
                   evalVars, sweepVars, nameVars, scanVars, mainVars>>

\* return df if not inplace else None
ReturnFrame ==
    /\ fpc = "loop"
    /\ ctidx > Len(columnTypes)
    /\ frameOut' = Some([kind |-> "return", frame |-> IF inplace THEN None ELSE copyDf])
    /\ fpc' = "done"
    /\ UNCHANGED <<callerDf, dfBefore, copyDf, columnTypes, inplace, ctidx, maskVars, trackVars, pipeVars,
                   evalVars, sweepVars, nameVars, scanVars, mainVars>>

InitMaskFrame ==
    /\ policies = None
    /\ registry = <<>>
    /\ IdleEvaluate
    /\ IdleSweep
    /\ IdleName
    /\ IdleScan
    /\ IdleMain
    /\ IdleMask
    /\ callerDf \in MaskFrames
    /\ dfBefore = callerDf
    /\ copyDf = None
    /\ columnTypes \in ColumnTypeDicts
    /\ inplace \in BOOLEAN
    /\ ctidx = 1
    /\ frameOut = None
    /\ fpc = "idle"
    /\ IdleTracker
    /\ IdlePipeline

NextMaskFrame ==
    \/ StartMaskFrame
    \/ MaskOneColumn
    \/ ReturnFrame

SpecMaskFrame == InitMaskFrame /\ [][NextMaskFrame]_vars

-----------------------------------------------------------------------------
(* violation_tracker.py: ViolationTracker, AlertManager and main *)

\* The policy ids of the violations handed to add_violation
TrackedPolicies == {"no_raw_email", "tag_required"}

\* The largest number of entries of the violation history
MaxViolations == 2

\* The largest number of alerts sent
MaxAlerts == 2

\* The hours the clock may advance in one step, and the last hour modelled
TickHours == {23, 24}

MaxClock == 47

\* {**violation, 'detected_at': now, 'status': 'open', 'alerted': False}
ViolationWithMeta(policy_id, now) ==
    [policy_id |-> policy_id, detected_at |-> now, status |-> "open",
     alerted |-> FALSE, resolved_at |-> None]

\* ViolationTracker.add_violation, with the save_violations it ends in
AddViolation ==
    /\ Len(trackerViolations) < MaxViolations
    /\ \E policy_id \in TrackedPolicies :
          trackerViolations' = Append(trackerViolations, ViolationWithMeta(policy_id, clock))
    /\ violationsDb' = trackerViolations'
    /\ addCalls' = addCalls + 1
    /\ lastCall' = Some([op |-> "add_violation", index |-> 0, raised |-> FALSE])
    /\ stats' = None
    /\ UNCHANGED <<clock, alertHistory, alertFile, seenAtAlert, lastCheck,
                   maskVars, frameVars, pipeVars, evalVars, sweepVars, nameVars, scanVars, mainVars>>

MarkResolvedAt_NegativeWraps(entries, violation_index, now) ==
    IF violation_index < Len(entries) /\ -Len(entries) <= violation_index
    THEN LET at == IF violation_index < 0 THEN Len(entries) + violation_index + 1
                   ELSE violation_index + 1
         IN  [entries EXCEPT ![at].status = "resolved", ![at].resolved_at = Some(now)]
    ELSE entries

\* What mark_resolved makes of the list for a 0-based violation_index
MarkResolvedAt(entries, violation_index, now) ==
    IF 0 <= violation_index /\ violation_index < Len(entries)
    THEN [entries EXCEPT ![violation_index + 1].status = "resolved",
                         ![violation_index + 1].resolved_at = Some(now)]
    ELSE entries

\* ViolationTracker.mark_resolved; it saves only when the index is in range
MarkResolved ==
    /\ \E violation_index \in (-1)..MaxViolations :
          /\ trackerViolations' = MarkResolvedAt(trackerViolations, violation_index, clock)
          /\ violationsDb' = IF 0 <= violation_index /\ violation_index < Len(trackerViolations)
                             THEN trackerViolations'
                             ELSE violationsDb
          /\ lastCall' = Some([op |-> "mark_resolved", index |-> violation_index,
                               raised |-> FALSE])
    /\ stats' = None
    /\ UNCHANGED <<clock, addCalls, alertHistory, alertFile, seenAtAlert, lastCheck,
                   maskVars, frameVars, pipeVars, evalVars, sweepVars, nameVars, scanVars, mainVars>>

\* ViolationTracker.get_open_violations
GetOpenViolations(entries) == SelectSeq(entries, LAMBDA v : v.status = "open")

\* policy_counts of get_violation_stats
PolicyCounts(entries) ==
    [policy_id \in {entries[i].policy_id : i \in 1..Len(entries)} |->
        Cardinality({i \in 1..Len(entries) : entries[i].policy_id = policy_id})]

ViolationStats(entries) ==
    LET total == Len(entries)
        open_count == Len(GetOpenViolations(entries))
    IN  [total_violations |-> total,
         open_violations |-> open_count,
         resolved_violations |-> total - open_count,
         by_policy |-> PolicyCounts(entries)]

\* A call of ViolationTracker.get_violation_stats
GetViolationStats ==
    /\ stats = None
    /\ stats' = Some(ViolationStats(trackerViolations))
    /\ UNCHANGED <<clock, trackerViolations, violationsDb, addCalls, lastCall,
                   alertHistory, alertFile, seenAtAlert, lastCheck,
                   maskVars, frameVars, pipeVars, evalVars, sweepVars, nameVars, scanVars, mainVars>>

\* The hours after which should_alert alerts again
AlertAfterHours == 24

\* AlertManager.should_alert, the clock counting hours
ShouldAlert(open_violations, alert_history, now) ==
    IF ~TruthySeq(open_violations) THEN FALSE
    ELSE IF ~TruthySeq(alert_history) THEN TRUE
    ELSE now - alert_history[Len(alert_history)].timestamp >= AlertAfterHours

\* The entry send_email_alert appends to the alert history
AlertData(open_violations, now) ==
    [timestamp |-> now,
     violations_count |-> Len(open_violations),
     violations |-> SubSeq(open_violations, 1, Min(5, Len(open_violations))),
     alert_type |-> "email"]

\* The alert threshold of main's config
AlertThreshold == 1

\* main: open_violations = tracker.get_open_violations(), then
\* "if alert_manager.should_alert(open_violations)" with its body
CheckAlerts ==
    /\ Len(alertHistory) < MaxAlerts
    /\ LET open_violations == GetOpenViolations(trackerViolations)
           decision == ShouldAlert(open_violations, alertHistory, clock)
           sent == decision /\ Len(open_violations) >= AlertThreshold
       IN  /\ lastCheck' = Some([result |-> decision,
                                 open_count |-> Len(open_violations),
                                 hours_since |-> IF Len(alertHistory) = 0 THEN None
                                                 ELSE Some(clock - alertHistory[Len(alertHistory)].timestamp),
                                 fresh_count |-> Cardinality({i \in 1..Len(trackerViolations) :
                                                     /\ trackerViolations[i].status = "open"
                                                     /\ i > seenAtAlert})])
           /\ alertHistory' = IF sent THEN Append(alertHistory, AlertData(open_violations, clock))
                              ELSE alertHistory
           /\ alertFile' = IF sent THEN alertHistory' ELSE alertFile
           /\ seenAtAlert' = IF sent THEN Len(trackerViolations) ELSE seenAtAlert
    /\ UNCHANGED <<clock, trackerViolations, violationsDb, addCalls, lastCall, stats,
                   maskVars, frameVars, pipeVars, evalVars, sweepVars, nameVars, scanVars, mainVars>>

\* Time passes between two calls
Tick ==
    /\ \E h \in TickHours :
          /\ clock + h <= MaxClock
          /\ clock' = clock + h
    /\ UNCHANGED <<trackerViolations, violationsDb, addCalls, lastCall, stats,
                   alertHistory, alertFile, seenAtAlert, lastCheck,
                   maskVars, frameVars, pipeVars, evalVars, sweepVars, nameVars, scanVars, mainVars>>

\* ViolationTracker() and AlertManager(config) on a fresh installation: no
\* violation database, no alert history file
InitTracker ==
    /\ policies = None
    /\ registry = <<>>
    /\ IdleEvaluate
    /\ IdleSweep
    /\ IdleName
    /\ IdleScan
    /\ IdleMain
    /\ IdleMask
    /\ IdleMaskFrame
    /\ IdleTracker
    /\ IdlePipeline

\* The calls of a ViolationTracker
NextTracker ==
    \/ AddViolation
    \/ MarkResolved
    \/ GetViolationStats
    \/ Tick

SpecTracker == InitTracker /\ [][NextTracker]_vars

\* Runs of main's alerting step between changes of the violation list
NextAlerts ==
    \/ AddViolation
    \/ MarkResolved
    \/ CheckAlerts
    \/ Tick

SpecAlerts == InitTracker /\ [][NextAlerts]_vars

-----------------------------------------------------------------------------
(* run_audit.py: run_pipeline, generate_summary_report and main *)

\* The largest number of rows of a report file
MaxReportRows == 2

\* What generate_summary_report finds at a report path: no file, a file
\* pd.read_csv raises on, or a file of some rows
ReportFiles ==
    {[state |-> "absent", rows |-> 0], [state |-> "unreadable", rows |-> 0]}
    \cup {[state |-> "rows", rows |-> n] : n \in 0..MaxReportRows}

\* What a run meets: whether run_pii_scan() and run_policies() raise, and the
\* two files of outputs/ when the summary is made
Environments ==
    [scan_raises : BOOLEAN, policies_raise : BOOLEAN,
     pii_scan : ReportFiles, violations : ReportFiles]

\* The part of generate_summary_report for outputs/pii_scan.csv: the
\* messages logged and whether read_csv raised
PiiScanSummary(file) ==
    IF file.state = "absent" THEN [raised |-> FALSE, messages |-> <<>>]
    ELSE IF file.state = "unreadable" THEN [raised |-> TRUE, messages |-> <<>>]
    ELSE [raised |-> FALSE,
          messages |-> <<"PII scan found " \o IntToStr(file.rows) \o " columns with PII">>]

\* The part for outputs/violations.csv
ViolationsSummary(file) ==
    IF file.state = "absent" THEN [raised |-> FALSE, messages |-> <<>>]
    ELSE IF file.state = "unreadable" THEN [raised |-> TRUE, messages |-> <<>>]
    ELSE [raised |-> FALSE,
          messages |-> <<"Policy evaluation found " \o IntToStr(file.rows) \o " violations">>
                       \o (IF file.rows > 0
                           THEN <<"Found " \o IntToStr(file.rows) \o " policy violations!">>
                           ELSE <<"No policy violations detected">>)]

\* generate_summary_report: its try block stops at the first exception, the
\* handler logs it and the function returns normally
GenerateSummaryReport(env) ==
    LET first == PiiScanSummary(env.pii_scan)
        second == ViolationsSummary(env.violations)
    IN  IF first.raised
        THEN [outcome |-> "swallowed",
              messages |-> <<"Failed to generate summary report">>]
        ELSE IF second.raised
        THEN [outcome |-> "swallowed",
              messages |-> first.messages \o <<"Failed to generate summary report">>]
        ELSE [outcome |-> "ok", messages |-> first.messages \o second.messages]

\* Mutant: the exit status does not depend on success
ExitStatus_AlwaysZero(success) == 0

\* main: sys.exit(0) if success else sys.exit(1)
ExitStatus(success) == IF success THEN 0 ELSE 1

\* A stage that ran, for the history
Stage(name, outcome) == [stage |-> name, outcome |-> outcome]

\* main calls run_pipeline: the try block is entered
StartPipeline ==
    /\ ppc = "start"
    /\ pipelineLog' = Append(pipelineLog, "Starting PII scan...")
    /\ ppc' = "scan"
    /\ UNCHANGED <<environment, stages, pipelineResult, exitStatus,
                   maskVars, frameVars, trackVars,
                   evalVars, sweepVars, nameVars, scanVars, mainVars>>

\* run_pii_scan(), and what follows it up to the call of run_policies
RunPiiScan ==
    /\ ppc = "scan"
    /\ IF environment.scan_raises
       THEN /\ stages' = Append(stages, Stage("scan", "raised"))
            /\ pipelineLog' = Append(pipelineLog, "Pipeline failed")
            /\ pipelineResult' = Some(FALSE)
            /\ ppc' = "returned"
       ELSE /\ stages' = Append(stages, Stage("scan", "ok"))
            /\ pipelineLog' = pipelineLog \o <<"PII scan completed",
                                               "Starting policy evaluation...">>
            /\ pipelineResult' = pipelineResult
            /\ ppc' = "policies"
    /\ UNCHANGED <<environment, exitStatus, maskVars, frameVars, trackVars,
                   evalVars, sweepVars, nameVars, scanVars, mainVars>>

\* run_policies(), and what follows it up to the summary
RunPolicies ==
    /\ ppc = "policies"
    /\ IF environment.policies_raise
       THEN /\ stages' = Append(stages, Stage("policies", "raised"))
            /\ pipelineLog' = Append(pipelineLog, "Pipeline failed")
            /\ pipelineResult' = Some(FALSE)
            /\ ppc' = "returned"
       ELSE /\ stages' = Append(stages, Stage("policies", "ok"))
            /\ pipelineLog' = Append(pipelineLog, "Policy evaluation completed")
            /\ pipelineResult' = pipelineResult
            /\ ppc' = "report"
    /\ UNCHANGED <<environment, exitStatus, maskVars, frameVars, trackVars,
                   evalVars, sweepVars, nameVars, scanVars, mainVars>>

\* generate_summary_report(), the last log line and return True
SummaryReport ==
    /\ ppc = "report"
    /\ LET summary == GenerateSummaryReport(environment)
       IN  /\ stages' = Append(stages, Stage("report", summary.outcome))
           /\ pipelineLog' = pipelineLog \o summary.messages
                                 \o <<"Audit pipeline completed successfully">>
    /\ pipelineResult' = Some(TRUE)
    /\ ppc' = "returned"
    /\ UNCHANGED <<environment, exitStatus, maskVars, frameVars, trackVars,
                   evalVars, sweepVars, nameVars, scanVars, mainVars>>

\* main after run_pipeline returned
ExitMain ==
    /\ ppc = "returned"
    /\ pipelineLog' = Append(pipelineLog,
                             IF pipelineResult[1] THEN "Audit pipeline completed successfully"
                             ELSE "Audit pipeline failed")
    /\ exitStatus' = Some(ExitStatus(pipelineResult[1]))
    /\ ppc' = "exited"
    /\ UNCHANGED <<environment, stages, pipelineResult, maskVars, frameVars, trackVars,
                   evalVars, sweepVars, nameVars, scanVars, mainVars>>

InitPipeline ==
    /\ policies = None
    /\ registry = <<>>
    /\ IdleEvaluate
    /\ IdleSweep
    /\ IdleName
    /\ IdleScan
    /\ IdleMain
    /\ IdleMask
    /\ IdleMaskFrame
    /\ IdleTracker
    /\ environment \in Environments
    /\ stages = <<>>
    /\ pipelineLog = <<>>
    /\ pipelineResult = None
    /\ exitStatus = None
    /\ ppc = "start"

NextPipeline ==
    \/ StartPipeline
    \/ RunPiiScan
    \/ RunPolicies
    \/ SummaryReport
    \/ ExitMain

SpecPipeline == InitPipeline /\ [][NextPipeline]_vars

-----------------------------------------------------------------------------
(* Properties of evaluate_policies *)

\* The pair (policy pi, row ri) has been through the inner loop body
Processed(pi, ri) ==
    /\ epc \in {"loop", "done"}
    /\ pi \in 1..Len(PolicyList)
    /\ ri \in 1..Len(registry)
    /\ (pi < pidx \/ (pi = pidx /\ ri < ridx))

\* The positions in violations of what the pair (pi, ri) emitted
Emitted(pi, ri) == {k \in 1..Len(origin) : origin[k] = <<pi, ri>>}

LexLeq(a, b) == a[1] < b[1] \/ (a[1] = b[1] /\ a[2] <= b[2])

\* The rule's table set / prefix is configured (present and non-empty)
TablesSet(policy) ==
    policy.applies_to_tables # None /\ Len(policy.applies_to_tables[1]) > 0

PrefixSet(policy) ==
    policy.table_name_prefix # None /\ policy.table_name_prefix[1] # ""

InScope(policy, row) ==
    /\ TablesSet(policy) =>
           \E i \in 1..Len(policy.applies_to_tables[1]) :
               policy.applies_to_tables[1][i] = row.table
    /\ PrefixSet(policy) => StartsWith(row.table, policy.table_name_prefix[1])

DeclaredForbidden(policy) ==
    IF policy.forbidden_tags = None THEN {}
    ELSE {policy.forbidden_tags[1][i] : i \in 1..Len(policy.forbidden_tags[1])}

\* s lists exactly the members of the non-empty set S, ascending, joined by ","
IsSortedJoinOf(s, S) ==
    LET parts == Split(s, ",")
    IN  /\ ToSet(parts) = S
        /\ \A i, j \in 1..Len(parts) : i < j => StrLess(parts[i], parts[j])

ForbiddenPrefix == "forbidden tags present: "

MissingReason == "detected PII missing tag"

\* C1: the violations are ordered by (policy index, then row index): each
\* violation is one that its recorded (policy, row) pair emits, the recorded
\* pairs never decrease along the list, and a second evaluation of the same
\* inputs returns the list the first one returned.
C1_OrderedAndDeterministic ==
    /\ Len(origin) = Len(violations)
    /\ \A k \in 1..Len(origin) :
           \E n \in 1..Len(EvalRow(PolicyList[origin[k][1]], registry[origin[k][2]])) :
               EvalRow(PolicyList[origin[k][1]], registry[origin[k][2]])[n] = violations[k]
    /\ \A k, l \in 1..Len(origin) : k < l => LexLeq(origin[k], origin[l])
    /\ (epc = "done" /\ prev # None) => violations = prev[1]

\* C1 witness: a second run has returned three or more violations that come
\* from two policies and, under one policy, from two rows.
C1_Witness ==
    /\ epc = "done"
    /\ prev # None
    /\ Len(violations) >= 3
    /\ \E k, l \in 1..Len(origin) : origin[k][1] # origin[l][1]
    /\ \E k, l \in 1..Len(origin) :
           origin[k][1] = origin[l][1] /\ origin[k][2] # origin[l][2]

\* C2: for every processed in-scope (policy, row) pair, a forbidden-tag
\* violation is emitted iff the policy's forbidden tags are non-empty and
\* intersect the row's tags; there is at most one, and it carries the policy's
\* id, the row's table and column, the row's tags sorted and comma-joined, and
\* the reason "forbidden tags present: " plus the sorted, comma-joined
\* intersection.
C2_ForbiddenTagCheck ==
    \A pi \in 1..Len(PolicyList), ri \in 1..Len(registry) :
        (Processed(pi, ri) /\ InScope(PolicyList[pi], registry[ri])) =>
            LET P      == PolicyList[pi]
                R      == registry[ri]
                common == RowTags(R) \cap DeclaredForbidden(P)
                hits   == {k \in Emitted(pi, ri) :
                              StartsWith(violations[k].reason, ForbiddenPrefix)}
            IN  /\ (hits # {}) <=> (DeclaredForbidden(P) # {} /\ common # {})
                /\ Cardinality(hits) <= 1
                /\ \A k \in hits :
                       /\ violations[k].policy_id = P.id
                       /\ violations[k].table = R.table
                       /\ violations[k].column = R.column
                       /\ IsSortedJoinOf(violations[k].pii_tags, RowTags(R))
                       /\ IsSortedJoinOf(SubSeq(violations[k].reason,
                                                Len(ForbiddenPrefix) + 1,
                                                Len(violations[k].reason)),
                                         common)

\* C2 witness (Scenario C): policy no_ssn forbidding national_id against row
\* logs.ssn tagged national_id has returned exactly one violation.
C2_Witness ==
    /\ epc = "done"
    /\ policies = Some(<<Rule(Some("no_ssn"), Some(<<"national_id">>), None, None, None)>>)
    /\ registry = <<Row("logs", "ssn", Some("national_id"))>>
    /\ violations = <<[policy_id |-> Some("no_ssn"), table |-> "logs", column |-> "ssn",
                       pii_tags |-> "national_id",
                       reason |-> "forbidden tags present: national_id"]>>

C4_MissingTagCheck ==
    \A pi \in 1..Len(PolicyList), ri \in 1..Len(registry) :
        LET P       == PolicyList[pi]
            R       == registry[ri]
            missing == {k \in Emitted(pi, ri) : violations[k].reason = MissingReason}
        IN  (/\ Processed(pi, ri)
             /\ InScope(P, R)
             /\ P.require_tag_for_detected = Some(TRUE))
            => IF R.pii_tags = None \/ R.pii_tags = Some("")
               THEN Cardinality(missing) = 1
               ELSE missing = {}

\* C5 (as the claim states it): when any rule of the policy list lacks its id,
\* the run produces no violation at all, so no violation ever carries a
\* missing policy_id.
C5_MissingIdRejected ==
    /\ (\E pi \in 1..Len(PolicyList) : PolicyList[pi].id = None) => violations = <<>>
    /\ \A k \in 1..Len(violations) : violations[k].policy_id # None

\* C6 (as the claim states it): once every rule has been evaluated against
\* every row, each of the counts zero, one and two has been emitted by some
\* single (policy, row) pair.
C6_ZeroOneOrTwo ==
    sweepTodo = {} => pairCounts = {0, 1, 2}

\* C6 (amended): a single row under a single policy emits zero or one
\* violation and never two, because the forbidden-tag check needs a non-empty
\* tag set and the missing-tag check an empty one.
C6_ZeroOrOne ==
    /\ pairCounts \subseteq {0, 1}
    /\ sweepTodo = {} => pairCounts = {0, 1}

\* C6 witness: every rule has been evaluated and both counts have occurred.
C6_Witness ==
    /\ sweepTodo = {}
    /\ pairCounts = {0, 1}

-----------------------------------------------------------------------------
(* Properties of detect_by_name *)

\* The catalog order the classifier is documented to follow
CatalogOrder == <<"email", "phone", "ip", "dob", "name", "national_id">>

\* The name pattern the catalog holds for a tag
NamePatternOf(tag) ==
    LET k == CHOOSE i \in 1..Len(PII_COLUMN_NAME_PATTERNS) :
                 PII_COLUMN_NAME_PATTERNS[i].tag = tag
    IN  PII_COLUMN_NAME_PATTERNS[k].pattern

\* The positions in CatalogOrder of the tags whose pattern is found in text
NameHits(text) ==
    {k \in 1..Len(CatalogOrder) : Search(NamePatternOf(CatalogOrder[k]), text)}

\* C8: detect_by_name returns the first tag, in the order email, phone, ip,
\* dob, name, national_id, whose name pattern is found in the lower-cased
\* column name; it returns at most one tag, and none when no pattern is found.
C8_FirstMatchWins ==
    npc # "start" =>
        LET hits == NameHits(FoldCase(colName))
        IN  /\ Len(nameTag) <= 1
            /\ hits = {} => nameTag = None
            /\ hits # {} =>
                   \E k \in hits :
                       /\ \A j \in hits : k <= j
                       /\ nameTag = Some(CatalogOrder[k])

\* C8 witness: a name that starts with IP and in which the email pattern is
\* found too has been given the tag email, the earlier one in catalog order.
C8_Witness ==
    /\ npc = "named"
    /\ StartsWith(colName, "IP")
    /\ Cardinality(NameHits(FoldCase(colName))) >= 2
    /\ nameTag = Some("email")

\* C9: a column name and the same name in lower case get the same tag from
\* detect_by_name, whatever was classified before.
C9_CaseInsensitive ==
    npc = "both" => nameTag = loweredTag

\* C9 witness: a name with upper-case letters has been tagged, and so has its
\* lower-case form in the following call.
C9_Witness ==
    /\ npc = "both"
    /\ colName # FoldCase(colName)
    /\ nameTag # None
    /\ loweredTag = nameTag

\* C16: detect_by_name returns phone for the column names phone, phone_number
\* and mobile, and so for PHONE_NUMBER: the word phone joined to another word
\* by an underscore is name-detected as phone.
C16_PhoneNames ==
    (npc # "start" /\ colName \in {"phone", "phone_number", "mobile", "PHONE_NUMBER"})
        => nameTag = Some("phone")

\* C17: detect_by_name returns no tag for the column names username, user_id
\* and description.
C17_NoTagForPlainNames ==
    (npc # "start" /\ colName \in {"username", "user_id", "description"})
        => nameTag = None

-----------------------------------------------------------------------------
(* Properties of scan_dataframe and detect_by_values *)

\* A detection step found something for a column processed
Fired(found) == found.name_tag # None \/ found.value_tag # None \/ found.heuristic

\* C7: the registry never holds a row with an empty tag set: every
\* ColumnPIIResult built by scan_dataframe has a non-empty detected_tags list
\* (so a non-empty pii_tags cell), a column processed for which no detection
\* step fired has no entry, and every other column processed has exactly one.
C7_NoEmptyTagSet ==
    /\ \A k \in 1..Len(results) : results[k].detected_tags # <<>>
    /\ \A k \in 1..Len(results) : ResultsToDataframe(results)[k].pii_tags # ""
    /\ \A i \in 1..Len(locals) :
          ~Fired(locals[i]) => \A k \in 1..Len(results) : results[k].column # df[i].name
    /\ \A i \in 1..Len(locals) :
          Fired(locals[i])
              => Cardinality({k \in 1..Len(results) : results[k].column = df[i].name}) = 1

\* C7 witness: a finished scan of two columns, one without any finding and
\* absent from the results, one with an entry
C7_Witness ==
    /\ spc = "done"
    /\ Len(df) = 2
    /\ \E i \in 1..2 : ~Fired(locals[i])
    /\ Len(results) = 1
    /\ results[1].detected_tags # <<>>

\* The catalog order of the tags that have a value pattern, as documented
ValueCatalogOrder == <<"email", "phone", "ip", "dob", "national_id">>

ValuePatternOf(tag) == (CHOOSE entry \in ToSet(PII_VALUE_REGEXES) : entry.tag = tag).pattern

\* The pattern matches the text from its first to its last character
FullStringMatch(pattern, text) == (Len(text) + 1) \in Ends(pattern, text, 1)

\* The positions of the first 50 non-null cells
SamplePositions(values) ==
    LET nonNull == SelectSeq([p \in 1..Len(values) |-> p],
                             LAMBDA p : values[p].kind # "null")
    IN {nonNull[rank] : rank \in {r \in 1..Len(nonNull) : r <= 50}}

\* The first tag in the documented order whose pattern accepts the text of at
\* least 3 sampled cells
ExpectedValueTag(col, accepts(_, _)) ==
    LET texts == AsTypeStr(col.values, col.dtype)
        sample == SamplePositions(col.values)
        sampled == {texts[p] : p \in sample}
        Matches(tag) ==
            LET accepted == {text \in sampled : accepts(ValuePatternOf(tag), text)}
            IN Cardinality({p \in sample : texts[p] \in accepted})
        reached == {k \in 1..Len(ValueCatalogOrder) : Matches(ValueCatalogOrder[k]) >= 3}
    IN IF reached = {} THEN None
       ELSE Some(ValueCatalogOrder[CHOOSE k \in reached : \A other \in reached : k <= other])

\* C10: value detection considers the first 50 non-null values only and returns
\* the first tag in the order email, phone, ip, dob, national_id with at least
\* 3 full-string matches among them, and none when no tag has 3.
C10_ValueDetection ==
    \A i \in 1..Len(locals) : locals[i].value_tag = ExpectedValueTag(df[i], FullStringMatch)

\* The same statement with "match" read as pattern.match, whose final $ also
\* accepts the position before a closing line break
ValueDetectionByAnchoredMatch ==
    \A i \in 1..Len(locals) : locals[i].value_tag = ExpectedValueTag(df[i], Match)

\* Scenario B: contact_field with three e-mail addresses and "hello"
ScenarioBTagged ==
    (spc = "done" /\ df = <<ScenarioB>>)
        => /\ Len(results) = 1
           /\ results[1].detected_tags = <<"email">>
           /\ results[1].detection_reason = "value:email"

\* C11: a column that mixes PII and other values is still detected:
\* scan_dataframe on the single column mixed_column, whose four values are two
\* e-mail addresses and two other strings, returns exactly one result, with
\* detected_tags equal to [email].
C11_MixedColumnDetected ==
    (spc = "done" /\ df = MixedFrame)
        => /\ Len(results) = 1
           /\ results[1].detected_tags = <<"email">>

\* The position in df of the column a result is about
ColumnIndexOf(result) == CHOOSE i \in 1..Len(df) : df[i].name = result.column

\* C12: when the name-derived and the value-derived tag of a column differ both
\* are kept, when they are equal the tag appears once; detected_tags is their
\* union without duplicates in lexicographic order, and detection_reason lists
\* "name:<tag>" before "value:<tag>" whatever the sorted order of the tags.
C12_TagUnionAndReasonOrder ==
    \A k \in 1..Len(results) :
        LET found == locals[ColumnIndexOf(results[k])]
            tags == results[k].detected_tags
            nameMarker == IF found.name_tag = None THEN <<>>
                          ELSE <<"name:" \o found.name_tag[1]>>
            valueMarker == IF found.value_tag = None \/ found.value_tag = found.name_tag
                           THEN <<>>
                           ELSE <<"value:" \o found.value_tag[1]>>
        IN (found.name_tag # None \/ found.value_tag # None)
              => /\ ToSet(tags) = ToSet(found.name_tag) \cup ToSet(found.value_tag)
                 /\ \A a, b \in 1..Len(tags) : a < b => StrLess(tags[a], tags[b])
                 /\ results[k].detection_reason = Join(",", nameMarker \o valueMarker)

\* C12 witness: a column named phone holding e-mail addresses: the tags come out
\* as email, phone and the reason as name:phone,value:email
C12_Witness ==
    /\ spc = "done"
    /\ \E k \in 1..Len(results) :
          /\ results[k].detected_tags = <<"email", "phone">>
          /\ results[k].detection_reason = "name:phone,value:email"

\* The positions of the first n non-null cells
WindowPositions(values, n) ==
    LET nonNull == SelectSeq([p \in 1..Len(values) |-> p],
                             LAMBDA p : values[p].kind # "null")
    IN {nonNull[rank] : rank \in {r \in 1..Len(nonNull) : r <= n}}

\* How many of the first 20 non-null values hold a character of the set
WindowCount(col, chars) ==
    LET texts == AsTypeStr(col.values, col.dtype)
    IN Cardinality({p \in WindowPositions(col.values, 20) : CharsOf(texts[p]) \cap chars # {}})

\* The fallback fires on a processed column exactly when neither the name nor
\* the values gave a tag, the column is textual and at least 5 of the first 20
\* non-null values hold a character of the set; the column is then tagged name
\* with the fallback marker, and a column nothing fired on has no entry
FallbackRule(chars) ==
    \A i \in 1..Len(locals) :
        LET due == /\ locals[i].name_tag = None
                   /\ locals[i].value_tag = None
                   /\ df[i].dtype = "object"
                   /\ WindowCount(df[i], chars) >= 5
            entries == {k \in 1..Len(results) : results[k].column = df[i].name}
        IN /\ locals[i].heuristic <=> due
           /\ due => \E k \in entries :
                        /\ results[k].detected_tags = <<"name">>
                        /\ results[k].detection_reason = "heuristic:name_with_spaces"
           /\ (locals[i].name_tag = None /\ locals[i].value_tag = None /\ ~due)
                 => entries = {}

\* C13 as stated: the fallback counts the values that contain a whitespace
\* character, any whitespace, a tab as well as a space.
C13_FallbackAnyWhitespace == FallbackRule(Spaces)

\* C13 as amended: the fallback counts the values that contain a space
\* character; a tab or another whitespace character does not count.
C13_FallbackSpaceOnly == FallbackRule({" "})

\* C13 witness: a column of more than 20 values that the fallback tagged
C13_Witness ==
    /\ spc = "done"
    /\ \E i \in 1..Len(locals) :
          /\ locals[i].heuristic
          /\ Len(df[i].values) > 20
          /\ \E k \in 1..Len(results) :
                results[k].column = df[i].name /\ results[k].detected_tags = <<"name">>

\* part occurs in text
Contains(text, part) ==
    \E i \in 1..(Len(text) - Len(part) + 1) : SubSeq(text, i, i + Len(part) - 1) = part

\* C14: name detection does not depend on the values: a processed column whose
\* lower-cased name a name pattern is found in has an entry with the first such
\* tag and a name:<tag> marker, whatever its values; when the column has no
\* non-null value, value detection and the fallback add nothing, so the entry
\* holds that tag alone, and a column without a name tag has no entry.
C14_NameAloneSuffices ==
    \A i \in 1..Len(locals) :
        LET hits == NameHits(FoldCase(df[i].name))
            first == CHOOSE k \in hits : \A j \in hits : k <= j
            entries == {k \in 1..Len(results) : results[k].column = df[i].name}
            noSample == \A p \in 1..Len(df[i].values) : df[i].values[p].kind = "null"
        IN /\ hits # {} =>
                 \E k \in entries :
                     /\ CatalogOrder[first] \in ToSet(results[k].detected_tags)
                     /\ Contains(results[k].detection_reason, "name:" \o CatalogOrder[first])
                     /\ noSample =>
                            /\ results[k].detected_tags = <<CatalogOrder[first]>>
                            /\ results[k].detection_reason = "name:" \o CatalogOrder[first]
           /\ noSample => (locals[i].value_tag = None /\ ~locals[i].heuristic)
           /\ (noSample /\ hits = {}) => entries = {}

\* C14 witness: Scenario A (user_email with the values x, y, z) and a column
\* user_email without any value have both been scanned and tagged email by name
C14_Witness ==
    /\ spc = "done"
    /\ Len(df) = 1
    /\ df[1].name = "user_email"
    /\ df[1].values \in {<<Str("x"), Str("y"), Str("z")>>, <<>>, <<Null, Null>>}
    /\ Len(results) = 1
    /\ results[1].detected_tags = <<"email">>
    /\ results[1].detection_reason = "name:email"

\* C18: detect_by_values returns the category the values belong to: ip for the
\* three dotted IPv4 addresses of the fixture, dob for its three YYYY-MM-DD
\* dates and national_id for its three ddd-dd-dddd values; no earlier catalog
\* tag claims these samples.
C18_ValueCategories ==
    \A i \in 1..Len(locals) :
        /\ df[i].values = TestData[3].values => locals[i].value_tag = Some("ip")
        /\ df[i].values = TestData[4].values => locals[i].value_tag = Some("dob")
        /\ df[i].values = TestData[6].values => locals[i].value_tag = Some("national_id")

\* C19: detect_by_values returns phone for the three phone numbers
\* +1-555-123-4567, (555) 987-6543 and 555-111-2222 of the fixture: each of
\* them counts as a phone match.
C19_PhoneFormats ==
    \A i \in 1..Len(locals) :
        df[i].values = TestData[2].values
            => /\ locals[i].value_tag = Some("phone")
               /\ \A p \in 1..3 : Match(ValuePatternOf("phone"), df[i].values[p].s)

\* C20: scan_dataframe over the fixture returns exactly six results, one per PII
\* column, whose first tags together cover email, phone, ip, dob, name and
\* national_id, and no result for non_pii_column or empty_column.
C20_FixtureScan ==
    (spc = "done" /\ df = TestData)
        => /\ Len(results) = 6
           /\ \A c \in 1..6 : \E k \in 1..6 : results[k].column = TestData[c].name
           /\ {results[k].detected_tags[1] : k \in 1..Len(results)}
                 = {"email", "phone", "ip", "dob", "name", "national_id"}
           /\ \A k \in 1..Len(results) :
                 results[k].column \notin {"non_pii_column", "empty_column"}

-----------------------------------------------------------------------------
(* Properties of scan_pii.main *)

\* The CSV files of the directory
CsvFiles == {f \in dataDir : EndsWith(f.name, ".csv")}

\* The table a registry row names: the CSV file of that stem
TableOf(row) == CHOOSE f \in CsvFiles : Stem(f.name) = row.table

\* The place of a table in table order, by file name
TableIndex(file) == 1 + Cardinality({g \in CsvFiles : StrLess(g.name, file.name)})

\* The place of the row's column among the columns of its table
ColumnIndex(row) ==
    CHOOSE c \in 1..Len(TableOf(row).frame) : TableOf(row).frame[c].name = row.column

LexLess(a, b) == a[1] < b[1] \/ (a[1] = b[1] /\ a[2] < b[2])

\* The rows of the registry built so far
RegistryRows == ResultsToDataframe(allResults)

-----------------------------------------------------------------------------
(* Properties of PIIMasker.mask_phone and mask_email *)

\* The mask character a call uses: the one given, 'X' when none is given
MaskCharUsed == IF maskChar = None \/ maskChar[1] = "" THEN "X" ELSE maskChar[1]

DigitPositions(text) == {i \in 1..Len(text) : CharAt(text, i) \in Digits}

\* Position i holds one of the last n digits of text
AmongLastDigits(text, i, n) ==
    Cardinality({j \in DigitPositions(text) : j > i}) < n

\* result is text with every digit but the last keep digits replaced by mc
DigitsMaskedButLast(text, result, keep, mc) ==
    /\ Len(result) = Len(text)
    /\ \A i \in 1..Len(text) :
          CharAt(result, i) =
              IF i \in DigitPositions(text) /\ ~AmongLastDigits(text, i, keep)
              THEN mc
              ELSE CharAt(text, i)

\* C21: mask_phone returns an empty, None or digit-free input unchanged; for
\* an input with d >= 1 digits the result has the length of the input, every
\* non-digit and the last min(2, d-1) digits are unchanged at their positions
\* and every other digit is the mask character, so at least one digit is
\* masked.
C21_PhoneMaskKeepsFormat ==
    maskFn = "mask_phone" =>
        LET out == maskOut[1]
            d == IF maskArg = None THEN 0 ELSE Cardinality(DigitPositions(maskArg[1]))
        IN  /\ out.kind = "return"
            /\ IF d = 0 THEN out.value = maskArg
               ELSE /\ out.value # None
                    /\ DigitsMaskedButLast(maskArg[1], out.value[1],
                                           Min(2, d - 1), MaskCharUsed)
                    /\ \E i \in DigitPositions(maskArg[1]) :
                          CharAt(out.value[1], i) = MaskCharUsed

\* mask_phone on an input with two or more digits masks as C21 describes
PhoneMaskFromTwoDigits ==
    (maskFn = "mask_phone" /\ maskArg # None) =>
        LET d == Cardinality(DigitPositions(maskArg[1]))
        IN  d >= 2 => /\ maskOut[1].value # None
                      /\ DigitsMaskedButLast(maskArg[1], maskOut[1].value[1],
                                             Min(2, d - 1), MaskCharUsed)

\* mask_phone on an input with exactly one digit leaves that digit in place,
\* and puts a mask character in front of it when the input is the digit alone
PhoneMaskOfOneDigit ==
    (maskFn = "mask_phone" /\ maskArg # None) =>
        (Cardinality(DigitPositions(maskArg[1])) = 1 =>
            maskOut[1].value =
                IF Len(maskArg[1]) = 1 THEN Some(MaskCharUsed \o maskArg[1]) ELSE maskArg)

\* The position of the first '@' of text
FirstAt(text) ==
    CHOOSE i \in 1..Len(text) :
        CharAt(text, i) = "@" /\ \A j \in 1..(i - 1) : CharAt(text, j) # "@"

\* result is text with the user name before position at masked but for its
\* last keep characters
UserNameMasked(text, result, at, keep, mc) ==
    /\ Len(result) = Len(text)
    /\ \A i \in 1..Len(text) :
          CharAt(result, i) = IF i < at - keep THEN mc ELSE CharAt(text, i)

\* C22: mask_email never raises; an empty or None input or one without '@'
\* is returned unchanged; for an input with '@' everything from the '@' on
\* and the last min(4, len(username)-1) characters of the user name are
\* unchanged and every earlier character is the mask character, so the
\* result has the length of the input.
C22_EmailMaskNeverFails ==
    maskFn = "mask_email" =>
        LET out == maskOut[1]
        IN  /\ out.kind = "return"
            /\ IF maskArg = None \/ "@" \notin CharsOf(maskArg[1])
               THEN out.value = maskArg
               ELSE /\ out.value # None
                    /\ LET at == FirstAt(maskArg[1])
                           keep == IF Min(4, at - 2) < 0 THEN 0 ELSE Min(4, at - 2)
                       IN  UserNameMasked(maskArg[1], out.value[1], at, keep, MaskCharUsed)

\* mask_email on an input with exactly one '@' masks as C22 describes
EmailMaskWithOneAt ==
    (maskFn = "mask_email" /\ maskArg # None) =>
        (Cardinality({i \in 1..Len(maskArg[1]) : CharAt(maskArg[1], i) = "@"}) = 1 =>
            /\ maskOut[1].kind = "return"
            /\ maskOut[1].value # None
            /\ LET at == FirstAt(maskArg[1])
                   keep == IF Min(4, at - 2) < 0 THEN 0 ELSE Min(4, at - 2)
               IN  UserNameMasked(maskArg[1], maskOut[1].value[1], at, keep, MaskCharUsed))

\* mask_email on an input with two or more '@' raises ValueError
EmailMaskWithTwoAts ==
    (maskFn = "mask_email" /\ maskArg # None) =>
        (Cardinality({i \in 1..Len(maskArg[1]) : CharAt(maskArg[1], i) = "@"}) >= 2 =>
            maskOut[1] = Raised("ValueError"))


-----------------------------------------------------------------------------
(* Properties of mask_dataframe *)

\* The columns column_types names
NamedColumns == {columnTypes[i].column : i \in 1..Len(columnTypes)}

\* The PII type column_types gives a named column
NamedType(column) ==
    columnTypes[CHOOSE i \in 1..Len(columnTypes) : columnTypes[i].column = column].field_type

\* masked is frame with every cell of the named columns masked by mask_field
\* and every other column as it was
MaskedFrom(frame, masked) ==
    /\ Len(masked) = Len(frame)
    /\ \A i \in 1..Len(frame) :
          /\ masked[i].name = frame[i].name
          /\ IF frame[i].name \in NamedColumns
             THEN /\ Len(masked[i].values) = Len(frame[i].values)
                  /\ \A k \in 1..Len(frame[i].values) :
                        MaskField(frame[i].values[k], NamedType(frame[i].name), None)
                            = Returned(masked[i].values[k])
             ELSE masked[i].values = frame[i].values

\* What C23 says of a call that ended with outcome out
FrameEffect(out) ==
    /\ out.kind = "return"
    /\ IF inplace
       THEN /\ out.frame = None
            /\ MaskedFrom(dfBefore, callerDf)
       ELSE /\ callerDf = dfBefore
            /\ out.frame # None
            /\ MaskedFrom(dfBefore, out.frame[1])

\* C23: with inplace=False mask_dataframe leaves the input DataFrame
\* unchanged and returns a masked copy; with inplace=True it masks the input
\* DataFrame itself and returns None; in both modes only the columns named in
\* column_types and present in the frame are changed.
C23_FrameEffect ==
    fpc = "done" => FrameEffect(frameOut[1])

\* Every call of mask_dataframe that returns has the effect C23 describes
FrameEffectOfReturningCalls ==
    (fpc = "done" /\ frameOut[1].kind = "return") => FrameEffect(frameOut[1])

\* Without inplace the caller's frame is never touched, even by a call that raises
InputKeptWithoutInplace ==
    ~inplace => callerDf = dfBefore

\* mask_dataframe raises only on a named e-mail column with a cell that holds
\* two or more '@'
FrameRaisesOnlyOnEmail ==
    (fpc = "done" /\ frameOut[1].kind = "raise") =>
        \E i \in 1..Len(dfBefore) :
            /\ dfBefore[i].name \in NamedColumns
            /\ Lower(NamedType(dfBefore[i].name)) = "email"
            /\ \E k \in 1..Len(dfBefore[i].values) :
                  /\ dfBefore[i].values[k] # None
                  /\ Cardinality({j \in 1..Len(dfBefore[i].values[k][1]) :
                                    CharAt(dfBefore[i].values[k][1], j) = "@"}) >= 2


-----------------------------------------------------------------------------
(* Properties of AlertManager.should_alert *)

\* C24: should_alert returns False for an empty violation list, True when
\* violations exist and no alert was ever sent, and, when a previous alert
\* exists, True whenever the open violations include one added after the
\* last alert, even within 24 hours of it, as well as whenever at least 24
\* hours have passed.
C24_AlertOnNewOrAfterDay ==
    lastCheck # None =>
        LET check == lastCheck[1]
        IN  /\ check.open_count = 0 => ~check.result
            /\ (check.open_count > 0 /\ check.hours_since = None) => check.result
            /\ (check.open_count > 0 /\ check.hours_since # None) =>
                   ((check.fresh_count > 0 \/ check.hours_since[1] >= 24) => check.result)

\* Once an alert was sent, should_alert on open violations goes by the age
\* of the last alert alone
AlertByAgeAlone ==
    (lastCheck # None /\ lastCheck[1].open_count > 0 /\ lastCheck[1].hours_since # None) =>
        (lastCheck[1].result <=> lastCheck[1].hours_since[1] >= 24)

\* should_alert is False on no open violation and True on the first ones
AlertFirstTime ==
    (lastCheck # None /\ (lastCheck[1].open_count = 0 \/ lastCheck[1].hours_since = None)) =>
        (lastCheck[1].result <=> lastCheck[1].open_count > 0)

-----------------------------------------------------------------------------
(* Properties of ViolationTracker *)

\* Every entry is open or resolved, and the statistics last reported count
\* every add_violation call once, as open or as resolved
StatusAndStats ==
    /\ \A i \in 1..Len(trackerViolations) :
          trackerViolations[i].status \in {"open", "resolved"}
    /\ stats # None =>
          /\ stats[1].total_violations = addCalls
          /\ stats[1].total_violations
                = stats[1].open_violations + stats[1].resolved_violations
          /\ stats[1].open_violations
                = Cardinality({i \in 1..Len(trackerViolations) :
                                  trackerViolations[i].status = "open"})
    /\ lastCall # None => ~lastCall[1].raised

\* An entry that is resolved is still there, and resolved, after the step
ResolvedStays ==
    \A i \in 1..Len(trackerViolations) :
        trackerViolations[i].status = "resolved" =>
            /\ i <= Len(trackerViolations')
            /\ trackerViolations'[i].status = "resolved"

\* A mark_resolved call with an index outside 0..len-1 changes nothing
OutOfRangeIgnored ==
    (/\ lastCall' # None
     /\ lastCall'[1].op = "mark_resolved"
     /\ (lastCall'[1].index < 0 \/ lastCall'[1].index >= Len(trackerViolations))) =>
        /\ trackerViolations' = trackerViolations
        /\ violationsDb' = violationsDb

\* C30: from an empty history, after any add_violation and mark_resolved
\* calls every entry's status is 'open' or 'resolved', get_violation_stats
\* reports total = open + resolved = number of add_violation calls, a resolved
\* entry never becomes open again, and mark_resolved with an index outside
\* 0..len-1 leaves the history unchanged and raises no error.
C30_StatusLifecycle ==
    /\ []StatusAndStats
    /\ [][ResolvedStays]_vars
    /\ [][OutOfRangeIgnored]_vars

\* C30 witness: two violations were added, the first was resolved, a call
\* with the index len was ignored, and the statistics report one open and
\* one resolved entry.
C30_Witness ==
    /\ stats # None
    /\ stats[1].open_violations = 1
    /\ stats[1].resolved_violations = 1
    /\ trackerViolations[1].status = "resolved"
    /\ lastCall = Some([op |-> "mark_resolved", index |-> 2, raised |-> FALSE])


-----------------------------------------------------------------------------
(* Frame of evaluate_policies *)

\* The tags a comma-joined string lists, the empty string listing none
TagSetOf(text) == IF text = "" THEN {} ELSE ToSet(Split(text, ","))

\* The tags of a registry cell, a NaN cell having none
CellTagSet(cell) == IF cell = None THEN {} ELSE TagSetOf(cell[1])

\* Every violation carries the table, the column and the tags of the
\* registry row that triggered it
ViolationsCopyRows ==
    \A k \in 1..Len(violations) :
        LET row == registry[origin[k][2]]
        IN  /\ violations[k].table = row.table
            /\ violations[k].column = row.column
            /\ TagSetOf(violations[k].pii_tags) = CellTagSet(row.pii_tags)

\* C25: evaluate_policies never mutates its inputs: at every step of a call
\* and after its return the registry rows and the policy rules are as they
\* were before the call, and each Violation's table, column and tags are
\* those of the registry row that triggered it.
C25_InputsUntouched ==
    /\ []ViolationsCopyRows
    /\ [][policies' = policies /\ registry' = registry]_vars

\* C25 witness: a call has returned a forbidden-tag violation and a
\* missing-tag violation.
C25_Witness ==
    /\ epc = "done"
    /\ \E k \in 1..Len(violations) : violations[k].pii_tags # ""
    /\ \E k \in 1..Len(violations) : violations[k].reason = "detected PII missing tag"


-----------------------------------------------------------------------------
(* The empty table list *)

\* The rule's applies_to_tables is present and is the empty list
EmptyTableList(policy) ==
    policy.applies_to_tables # None /\ Len(policy.applies_to_tables[1]) = 0

\* C26: a policy whose applies_to_tables is present but empty has the empty
\* table set applied as a filter: every registry row is skipped and the
\* policy produces no violation.
C26_EmptyTableListSkipsAll ==
    \A pi \in 1..Len(PolicyList), ri \in 1..Len(registry) :
        (Processed(pi, ri) /\ EmptyTableList(PolicyList[pi])) => Emitted(pi, ri) = {}

\* A rule with an empty applies_to_tables emits what the same rule without
\* the key emits
EmptyTableListIsNoFilter ==
    \A pi \in 1..Len(PolicyList), ri \in 1..Len(registry) :
        (Processed(pi, ri) /\ EmptyTableList(PolicyList[pi])) =>
            [k \in 1..Cardinality(Emitted(pi, ri)) |->
                violations[(CHOOSE first \in Emitted(pi, ri) :
                               \A other \in Emitted(pi, ri) : first <= other) + k - 1]]
              = EvalRow([PolicyList[pi] EXCEPT !.applies_to_tables = None], registry[ri])


-----------------------------------------------------------------------------
(* The registry between scanner and evaluator *)

\* The tags of the two catalogs
CatalogTags == {"email", "phone", "ip", "dob", "name", "national_id"}

\* C27: for every ColumnPIIResult of scan_dataframe, joining its tags with
\* ',' and splitting the string on ',' recovers exactly its tag set, so
\* every forbidden-tag Violation's pii_tags string equals the registry row's
\* pii_tags string and every tag in it is a catalog tag.
C27_RegistryRoundTrip ==
    TruthySeq(registry) =>
        /\ Len(registry) = Len(results)
        /\ \A k \in 1..Len(results) :
              /\ registry[k].pii_tags # None
              /\ ToSet(Split(registry[k].pii_tags[1], ",")) = ToSet(results[k].detected_tags)
              /\ Cardinality(ToSet(results[k].detected_tags)) = Len(results[k].detected_tags)
        /\ \A k \in 1..Len(violations) :
              StartsWith(violations[k].reason, "forbidden tags present: ") =>
                  /\ violations[k].pii_tags = registry[origin[k][2]].pii_tags[1]
                  /\ ToSet(Split(violations[k].pii_tags, ",")) \subseteq CatalogTags

\* C27 witness: the evaluation has returned a forbidden-tag violation for a
\* column classified with two tags.
C27_Witness ==
    /\ epc = "done"
    /\ \E k \in 1..Len(violations) :
          /\ StartsWith(violations[k].reason, "forbidden tags present: ")
          /\ Len(Split(violations[k].pii_tags, ",")) = 2


-----------------------------------------------------------------------------
(* The shape of a ColumnPIIResult *)

FallbackMarker == "heuristic:name_with_spaces"

\* C28: every ColumnPIIResult of scan_dataframe has one or two tags and as
\* many reason markers as tags; the fallback marker only appears alone, with
\* the single tag "name"; detection_reason is never "n/a".
C28_TagsAndMarkers ==
    \A k \in 1..Len(results) :
        LET tags == results[k].detected_tags
            markers == Split(results[k].detection_reason, ",")
        IN  /\ Len(tags) \in {1, 2}
            /\ Len(markers) = Len(tags)
            /\ FallbackMarker \in ToSet(markers) =>
                   (markers = <<FallbackMarker>> /\ tags = <<"name">>)
            /\ results[k].detection_reason # "n/a"

\* C28 witness: a finished scan has a result with two tags and two markers.
C28_Witness ==
    /\ spc = "done"
    /\ \E k \in 1..Len(results) :
          /\ Len(results[k].detected_tags) = 2
          /\ Len(Split(results[k].detection_reason, ",")) = 2



-----------------------------------------------------------------------------
(* Properties of run_pipeline *)

StageOrder == <<"scan", "policies", "report">>

\* C29: run_pipeline runs PII scan, policy evaluation and summary report in
\* this order; a stage starts only when the stages before it ended without an
\* exception; a failure of the scan or of the policy evaluation makes
\* run_pipeline return False with no later stage run; main exits with status
\* 0 exactly when run_pipeline returned True; a failure inside
\* generate_summary_report is swallowed and the run still succeeds.
C29_StagesInOrder ==
    /\ Len(stages) <= 3
    /\ \A i \in 1..Len(stages) : stages[i].stage = StageOrder[i]
    /\ \A i \in 2..Len(stages) : stages[i - 1].outcome = "ok"
    /\ \A i \in 1..Len(stages) :
          stages[i].outcome = "raised" =>
              /\ i = Len(stages)
              /\ i <= 2
              /\ pipelineResult = Some(FALSE)
    /\ pipelineResult = Some(FALSE) => stages[Len(stages)].outcome = "raised"
    /\ pipelineResult = Some(TRUE) =>
          /\ Len(stages) = 3
          /\ stages[3].outcome \in {"ok", "swallowed"}
    /\ (Len(stages) = 3 /\ ppc # "report") => pipelineResult = Some(TRUE)
    /\ exitStatus # None =>
          /\ pipelineResult # None
          /\ exitStatus = Some(0) <=> pipelineResult = Some(TRUE)
          /\ exitStatus = Some(0)
                <=> (~environment.scan_raises /\ ~environment.policies_raise)

\* C29 witness: scan and policy evaluation succeeded, the summary report
\* failed on an unreadable file, and main exited with status 0.
C29_Witness ==
    /\ ppc = "exited"
    /\ Len(stages) = 3
    /\ stages[3].outcome = "swallowed"
    /\ exitStatus = Some(0)

=============================================================================
